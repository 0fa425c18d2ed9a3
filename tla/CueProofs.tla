------------------------------ MODULE CueProofs ------------------------------
(***************************************************************************)
(* What the decoders read from a section that was encoded is what was      *)
(* encoded, for every cue and whatever the widths of the fields are.  The  *)
(* walks of the code are recursive functions over the cells of a body; the *)
(* lemmas say where the parts of a cue lie in it, and that each walk stops *)
(* at every one of them.                                                   *)
(***************************************************************************)
EXTENDS CueSection, WellFoundedInduction, SequenceTheorems, TLAPS

-----------------------------------------------------------------------------
(* Recursion over cells.  Induction is over a set of numbers, and a chain is*)
(* a function of 1..n of which each value is computed from the one before.  *)

LEMMA Induction ==
  ASSUME NEW S \in SUBSET Nat, 0 \in S, \A n \in S : n + 1 \in S
  PROVE  S = Nat
<1> SUFFICES ASSUME Nat \ S # {} PROVE FALSE
  OBVIOUS
<1>1. PICK n \in Nat \ S : \A m \in Nat \ S : ~ (<<m, n>> \in OpToRel(<, Nat))
  <2>1. Nat \ S \subseteq Nat
    OBVIOUS
  <2>2. QED BY <2>1, NatLessThanWellFounded, WFMin, Zenon
<1>2. n - 1 \in Nat /\ <<n - 1, n>> \in OpToRel(<, Nat)
  BY DEF OpToRel
<1>3. n - 1 \in S
  BY <1>1, <1>2
<1>4. QED BY <1>3

Steps(n, V) == [1..n -> [V -> V]]

Chain(f, n, first, step) ==
    \A k \in 1..n : (k = 1 => f[k] = first) /\ (k # 1 => f[k] = step[k][f[k - 1]])

\* There is a chain for every first value and every step.
LEMMA ChainExists ==
  ASSUME NEW V, NEW n \in Nat, NEW first \in V, NEW step \in Steps(n, V)
  PROVE  \E f \in [1..n -> V] : Chain(f, n, first, step)
<1> USE DEF Steps, Chain
<1> DEFINE Good(f, m) ==
             \A k \in 1..n : k <= m =>
               (k = 1 => f[k] = first) /\ (k # 1 => f[k] = step[k][f[k - 1]])
           S == {m \in Nat : \E f \in [1..n -> V] : Good(f, m)}
<1>1. 0 \in S
  <2>1. [k \in 1..n |-> first] \in [1..n -> V]
    OBVIOUS
  <2>2. Good([k \in 1..n |-> first], 0)
    OBVIOUS
  <2> HIDE DEF Good
  <2>3. QED BY <2>1, <2>2
<1>2. ASSUME NEW m \in S PROVE m + 1 \in S
  <2>1. PICK f \in [1..n -> V] : Good(f, m)
    OBVIOUS
  <2>2. CASE m + 1 > n
    <3>1. Good(f, m + 1)
      BY <2>1, <2>2
    <3> HIDE DEF Good
    <3>2. QED BY <3>1
  <2>3. CASE m + 1 <= n
    <3> DEFINE v == IF m = 0 THEN first ELSE step[m + 1][f[m]]
               g == [f EXCEPT ![m + 1] = v]
    <3>1. v \in V
      <4>1. m # 0 => m \in 1..n /\ m + 1 \in 1..n
        BY <2>3
      <4>2. m # 0 => f[m] \in V /\ step[m + 1] \in [V -> V]
        BY <4>1
      <4>3. QED BY <4>2
    <3>2. g \in [1..n -> V]
      BY <3>1
    <3>3. Good(g, m + 1)
      <4> HIDE DEF v
      <4> SUFFICES ASSUME NEW k \in 1..n, k <= m + 1
                   PROVE  (k = 1 => g[k] = first) /\ (k # 1 => g[k] = step[k][g[k - 1]])
        OBVIOUS
      <4>1. CASE k = m + 1
        <5>1. g[k] = v
          BY <4>1
        <5>2. k # 1 => g[k - 1] = f[m]
          BY <4>1
        <5>3. k = 1 <=> m = 0
          BY <4>1
        <5> HIDE DEF g
        <5>4. QED BY <4>1, <5>1, <5>2, <5>3 DEF v
      <4>2. CASE k # m + 1
        BY <4>2, <2>1
      <4>3. QED BY <4>1, <4>2
    <3> HIDE DEF Good, g
    <3>4. QED BY <3>2, <3>3
  <2>4. m \in Nat
    OBVIOUS
  <2> HIDE DEF S
  <2>5. QED BY <2>2, <2>3, <2>4
<1>3. n \in S
  <2> HIDE DEF S
  <2>1. S \in SUBSET Nat
    BY DEF S
  <2>2. QED BY <1>1, <1>2, <2>1, Induction
<1>4. PICK f \in [1..n -> V] : Good(f, n)
  BY <1>3
<1>5. QED BY <1>4

\* A value that every step keeps in V never leaves it.
LEMMA ChainTyped ==
  ASSUME NEW V, NEW n \in Nat, NEW f, n >= 1 => f[1] \in V,
         \A k \in 2..n : f[k - 1] \in V => f[k] \in V
  PROVE  \A k \in 1..n : f[k] \in V
<1> DEFINE S == {m \in Nat : m + 1 \in 1..n => f[m + 1] \in V}
<1>1. 0 \in S
  OBVIOUS
<1>2. ASSUME NEW m \in S PROVE m + 1 \in S
  <2>1. CASE m + 2 \in 1..n
    <3>1. f[(m + 2) - 1] \in V => f[m + 2] \in V
      BY <2>1
    <3>2. QED BY <2>1, <3>1
  <2>2. CASE m + 2 \notin 1..n
    BY <2>2
  <2>3. QED BY <2>1, <2>2
<1>3. S = Nat
  <2> HIDE DEF S
  <2>1. S \in SUBSET Nat
    BY DEF S
  <2>2. QED BY <1>1, <1>2, <2>1, Induction
<1>4. ASSUME NEW k \in 1..n PROVE f[k] \in V
  <2>1. k - 1 \in S
    BY <1>3
  <2>2. QED BY <2>1
<1>5. QED BY <1>4

-----------------------------------------------------------------------------
(* Walks.                                                                   *)

LEMMA AtIsCell == ASSUME NEW b \in Seq(Nat), NEW i PROVE At(b, i) \in Nat
  BY LenProperties DEF At

LEMMA AfterTimeIsCell ==
  ASSUME NEW b \in Seq(Nat), NEW i \in Nat
  PROVE  AfterTime(b, i) \in Nat /\ AfterTime(b, i) > i
BY DEF AfterTime

-----------------------------------------------------------------------------
(* A descent goes up through the cells of go, from each to the next one it  *)
(* names, and lists a value for each.                                       *)

Descent(f, go, val, next) ==
    \A i \in Nat : /\ i \notin go => f[i] = <<>>
                   /\ i \in go => f[i] = <<val[i]>> \o f[next[i]]

Onward == {next \in [Nat -> Nat] : \A i \in Nat : next[i] > i}

LEMMA DescentExists ==
  ASSUME NEW V, NEW hi \in Nat, NEW go \in SUBSET {i \in Nat : i < hi},
         NEW val \in [Nat -> V], NEW next \in Onward
  PROVE  \E f \in [Nat -> Seq(V)] : Descent(f, go, val, next)
<1> DEFINE Holds(f, i) == /\ i \notin go => f[i] = <<>>
                          /\ i \in go => f[i] = <<val[i]>> \o f[next[i]]
           Good(f, m) == \A i \in Nat : i + m >= hi => Holds(f, i)
           S == {m \in Nat : \E f \in [Nat -> Seq(V)] : Good(f, m)}
<1>0. next \in [Nat -> Nat] /\ \A i \in Nat : next[i] > i
  BY DEF Onward
<1>1. 0 \in S
  <2>1. [i \in Nat |-> <<>>] \in [Nat -> Seq(V)]
    OBVIOUS
  <2>2. Good([i \in Nat |-> <<>>], 0)
    OBVIOUS
  <2> HIDE DEF Good
  <2>3. QED BY <2>1, <2>2
<1>2. ASSUME NEW m \in S PROVE m + 1 \in S
  <2>0. m \in Nat
    OBVIOUS
  <2>1. PICK f \in [Nat -> Seq(V)] : Good(f, m)
    OBVIOUS
  <2>2. CASE m >= hi
    <3>1. Good(f, m + 1)
      <4> SUFFICES ASSUME NEW i \in Nat, i + (m + 1) >= hi PROVE Holds(f, i)
        OBVIOUS
      <4>1. i + m >= hi
        BY <2>0, <2>2
      <4>2. QED BY <2>1, <4>1
    <3> HIDE DEF Good
    <3>2. QED BY <2>0, <3>1
  <2>3. CASE m < hi
    <3> DEFINE at == hi - m - 1
               v == IF at \in go THEN <<val[at]>> \o f[next[at]] ELSE <<>>
               g == [f EXCEPT ![at] = v]
    <3>1. at \in Nat
      BY <2>0, <2>3
    <3>2. v \in Seq(V)
      <4>1. f[next[at]] \in Seq(V) /\ <<val[at]>> \in Seq(V)
        BY <1>0, <3>1
      <4> HIDE DEF at
      <4>2. QED BY <4>1
    <3>3. g \in [Nat -> Seq(V)]
      <4> HIDE DEF v, at
      <4>1. QED BY <3>2
    <3>4. Good(g, m + 1)
      <4> SUFFICES ASSUME NEW i \in Nat, i + (m + 1) >= hi PROVE Holds(g, i)
        OBVIOUS
      <4>1. CASE i = at
        <5>1. next[i] # at /\ next[i] \in Nat
          BY <1>0, <4>1
        <5> HIDE DEF at
        <5>2. g[i] = v
          BY <3>1, <4>1
        <5>3. g[next[i]] = f[next[i]]
          BY <5>1
        <5> HIDE DEF g
        <5>4. QED BY <4>1, <5>2, <5>3
      <4>2. CASE i # at
        <5>1. i + m >= hi /\ i > at
          BY <2>0, <4>2
        <5>2. Holds(f, i)
          BY <2>1, <5>1
        <5>3. next[i] # at /\ next[i] \in Nat
          BY <1>0, <5>1, <3>1
        <5> HIDE DEF at, v
        <5>4. g[i] = f[i] /\ g[next[i]] = f[next[i]]
          BY <4>2, <5>3
        <5> HIDE DEF g
        <5>5. QED BY <5>2, <5>4
      <4>3. QED BY <4>1, <4>2
    <3> HIDE DEF Good, g
    <3>5. QED BY <2>0, <3>3, <3>4
  <2> HIDE DEF S
  <2>4. QED BY <2>0, <2>2, <2>3
<1>3. S = Nat
  <2> HIDE DEF S
  <2>1. S \in SUBSET Nat
    BY DEF S
  <2>2. QED BY <1>1, <1>2, <2>1, Induction
<1>4. PICK f \in [Nat -> Seq(V)] : Good(f, hi)
  <2>1. hi \in S
    BY <1>3
  <2> HIDE DEF Good
  <2>2. QED BY <2>1
<1>5. Descent(f, go, val, next)
  <2>1. \A i \in Nat : Holds(f, i)
    <3>1. \A i \in Nat : i + hi >= hi
      OBVIOUS
    <3> HIDE DEF Holds
    <3>2. QED BY <1>4, <3>1
  <2>2. QED BY <2>1 DEF Descent
<1>6. QED BY <1>5

\* What is listed from cell lo on belongs to cells at lo or behind.
LEMMA DescentTyped ==
  ASSUME NEW V, NEW lo \in Nat, NEW hi \in Nat, NEW go \in SUBSET {i \in Nat : i < hi},
         NEW val, NEW next \in Onward, NEW f, Descent(f, go, val, next),
         \A i \in go : i >= lo => val[i] \in V
  PROVE  f[lo] \in Seq(V)
<1> DEFINE S == {m \in Nat : \A i \in Nat : i >= lo /\ i + m >= hi => f[i] \in Seq(V)}
<1>1. next \in [Nat -> Nat] /\ \A i \in Nat : next[i] > i
  BY DEF Onward
<1>2. \A i \in Nat : i \notin go => f[i] = <<>>
  <2> HIDE DEF S
  <2>1. QED BY DEF Descent
<1>3. \A i \in Nat : i \in go => f[i] = <<val[i]>> \o f[next[i]]
  <2> HIDE DEF S
  <2>1. QED BY DEF Descent
<1>4. 0 \in S
  <2> SUFFICES ASSUME NEW i \in Nat, i >= lo, i + 0 >= hi PROVE f[i] \in Seq(V)
    OBVIOUS
  <2>1. i \notin go
    OBVIOUS
  <2>2. f[i] = <<>>
    BY <1>2, <2>1
  <2>3. QED BY <2>2
<1>5. ASSUME NEW m \in S PROVE m + 1 \in S
  <2>0. m \in Nat
    OBVIOUS
  <2> SUFFICES ASSUME NEW i \in Nat, i >= lo, i + (m + 1) >= hi PROVE f[i] \in Seq(V)
    BY <2>0
  <2>1. CASE i \notin go
    <3>1. f[i] = <<>>
      BY <1>2, <2>1
    <3>2. QED BY <3>1
  <2>2. CASE i \in go
    <3>1. f[i] = <<val[i]>> \o f[next[i]]
      BY <1>3, <2>2
    <3>2. next[i] \in Nat /\ next[i] >= lo /\ next[i] + m >= hi
      <4> HIDE DEF S
      <4>1. next[i] \in Nat /\ next[i] > i
        BY <1>1
      <4>2. QED BY <2>0, <4>1
    <3>3. f[next[i]] \in Seq(V)
      BY <3>2
    <3>4. <<val[i]>> \in Seq(V)
      BY <2>2
    <3>5. QED BY <3>1, <3>3, <3>4, ConcatProperties
  <2>3. QED BY <2>1, <2>2
<1>6. hi \in S
  <2> HIDE DEF S
  <2>1. S \in SUBSET Nat
    BY DEF S
  <2>2. QED BY <1>4, <1>5, <2>1, Induction
<1>7. QED BY <1>6

\* A list that grows at its front, one value at a time, from the last on.
Grows(g, n, V, val) ==
    /\ val \in [1..n -> V]
    /\ g[n + 1] = <<>> /\ \A k \in 1..n : g[k] = <<val[k]>> \o g[k + 1]

LEMMA ListBuilt ==
  ASSUME NEW V, NEW n \in Nat, NEW val, NEW g, Grows(g, n, V, val)
  PROVE  g[1] = val /\ val \in Seq(V)
<1>0. val \in [1..n -> V] /\ g[n + 1] = <<>> /\ \A k \in 1..n : g[k] = <<val[k]>> \o g[k + 1]
  BY DEF Grows
<1> DEFINE S == {m \in Nat : m <= n => g[n + 1 - m] = [k \in 1..m |-> val[n - m + k]]}
<1>1. 0 \in S
  <2>1. [k \in 1..0 |-> val[n - 0 + k]] = <<>>
    OBVIOUS
  <2>2. n + 1 - 0 = n + 1
    OBVIOUS
  <2>3. QED BY <1>0, <2>1, <2>2
<1>2. ASSUME NEW m \in S PROVE m + 1 \in S
  <2>0. m \in Nat
    OBVIOUS
  <2> SUFFICES ASSUME m + 1 <= n
               PROVE  g[n + 1 - (m + 1)] = [k \in 1..(m + 1) |-> val[n - (m + 1) + k]]
    BY <2>0
  <2> DEFINE i == n - m
             tail == [k \in 1..m |-> val[n - m + k]]
  <2>1. i \in 1..n /\ n + 1 - (m + 1) = i /\ n + 1 - m = i + 1
    BY <2>0
  <2>2. g[i + 1] = tail
    <3>1. m <= n
      BY <2>0
    <3>2. g[n + 1 - m] = tail
      BY <3>1
    <3> HIDE DEF tail, i
    <3>3. QED BY <2>1, <3>2
  <2>3. g[i] = <<val[i]>> \o tail
    BY <1>0, <2>1, <2>2
  <2>4. tail \in Seq(V) /\ Len(tail) = m /\ val[i] \in V
    <3>1. \A k \in 1..m : val[n - m + k] \in V
      BY <1>0, <2>0
    <3>2. val[i] \in V
      BY <1>0, <2>1
    <3>3. tail \in [1..m -> V]
      BY <3>1
    <3> HIDE DEF S, i, tail
    <3>4. tail \in Seq(V) /\ DOMAIN tail = 1..m
      BY <2>0, <3>3, SeqDef
    <3>4a. Len(tail) = m
      BY <2>0, <3>4, LenProperties
    <3>5. QED BY <3>2, <3>4, <3>4a
  <2>5. <<val[i]>> \o tail = [k \in 1..(m + 1) |-> val[n - (m + 1) + k]]
    <3> DEFINE both == <<val[i]>> \o tail
               whole == [k \in 1..(m + 1) |-> val[n - (m + 1) + k]]
    <3>1. both \in Seq(V) /\ Len(both) = m + 1
      BY <2>0, <2>4, ConcatProperties
    <3>2. \A k \in 1..(m + 1) : both[k] = IF k <= 1 THEN val[i] ELSE tail[k - 1]
      BY <2>0, <2>4
    <3>3. \A k \in 1..(m + 1) : both[k] = whole[k]
      <4> SUFFICES ASSUME NEW k \in 1..(m + 1) PROVE both[k] = whole[k]
        OBVIOUS
      <4>1. CASE k = 1
        <5>1. n - (m + 1) + k = i
          BY <2>0, <4>1
        <5> HIDE DEF both, tail, i
        <5>2. both[k] = val[i] /\ whole[k] = val[i]
          BY <3>2, <4>1, <5>1
        <5>3. QED BY <5>2
      <4>2. CASE k # 1
        <5>1. k - 1 \in 1..m /\ n - m + (k - 1) = n - (m + 1) + k
          BY <2>0, <4>2
        <5>2. tail[k - 1] = val[n - (m + 1) + k]
          BY <5>1
        <5> HIDE DEF both, tail, i
        <5>3. both[k] = tail[k - 1]
          BY <3>2, <4>2
        <5>4. QED BY <5>2, <5>3
      <4>3. QED BY <4>1, <4>2
    <3> HIDE DEF both
    <3>4. DOMAIN both = 1..(m + 1)
      BY <2>0, <3>1, LenProperties
    <3>5. both = [k \in 1..(m + 1) |-> both[k]]
      BY <3>1, <3>4
    <3>6. QED BY <3>3, <3>5 DEF both
  <2> HIDE DEF tail, i
  <2>6. QED BY <2>1, <2>3, <2>5
<1>3. n \in S
  <2> HIDE DEF S
  <2>1. S \in SUBSET Nat
    BY DEF S
  <2>2. QED BY <1>1, <1>2, <2>1, Induction
<1>4. g[1] = [k \in 1..n |-> val[k]]
  <2>1. n + 1 - n = 1 /\ \A k \in 1..n : n - n + k = k
    OBVIOUS
  <2>2. QED BY <1>3, <2>1
<1>5. QED BY <1>0, <1>4

-----------------------------------------------------------------------------
(* Where cells lie.                                                         *)

Cells == Seq(Nat)

Places == Nat \ {0}

\* The cells s lie in b from cell i on.
Has(b, i, s) == i + Len(s) <= Len(b) + 1 /\ \A x \in 1..Len(s) : b[i + x - 1] = s[x]

LEMMA HasNone == ASSUME NEW b \in Cells, NEW i \in Places PROVE Has(b, i, <<>>) <=> i <= Len(b) + 1
BY LenProperties DEF Has, Places, Cells

LEMMA HasOne ==
  ASSUME NEW b \in Cells, NEW i \in Places, NEW v
  PROVE  Has(b, i, <<v>>) <=> i \in DOMAIN b /\ b[i] = v
<1>1. Len(b) \in Nat /\ DOMAIN b = 1..Len(b)
  BY LenProperties DEF Cells
<1>2. Len(<<v>>) = 1 /\ <<v>>[1] = v
  OBVIOUS
<1>3. Has(b, i, <<v>>) <=> i + 1 <= Len(b) + 1 /\ b[i + 1 - 1] = v
  BY <1>2 DEF Has
<1>4. QED BY <1>1, <1>3 DEF Places

LEMMA HasConcat ==
  ASSUME NEW b \in Cells, NEW i \in Places, NEW s \in Cells, NEW t \in Cells
  PROVE  Has(b, i, s \o t) <=> Has(b, i, s) /\ Has(b, i + Len(s), t)
<1>1. Len(b) \in Nat /\ Len(s) \in Nat /\ Len(t) \in Nat /\ i \in Nat
  BY LenProperties DEF Cells, Places
<1>2. Len(s \o t) = Len(s) + Len(t)
        /\ \A x \in 1..(Len(s) + Len(t)) :
             (s \o t)[x] = IF x <= Len(s) THEN s[x] ELSE t[x - Len(s)]
  BY DEF Cells
<1>3. ASSUME Has(b, i, s \o t) PROVE Has(b, i, s) /\ Has(b, i + Len(s), t)
  <2>1. \A x \in 1..(Len(s) + Len(t)) :
           b[i + x - 1] = IF x <= Len(s) THEN s[x] ELSE t[x - Len(s)]
    BY <1>2, <1>3 DEF Has
  <2>2. i + Len(s) + Len(t) <= Len(b) + 1
    BY <1>1, <1>2, <1>3 DEF Has
  <2>3. Has(b, i, s)
    <3>1. \A x \in 1..Len(s) : b[i + x - 1] = s[x]
      BY <1>1, <2>1
    <3>2. i + Len(s) <= Len(b) + 1
      BY <1>1, <2>2
    <3>3. QED BY <3>1, <3>2 DEF Has
  <2>4. Has(b, i + Len(s), t)
    <3> SUFFICES ASSUME NEW x \in 1..Len(t) PROVE b[i + Len(s) + x - 1] = t[x]
      BY <1>1, <2>2 DEF Has
    <3>1. Len(s) + x \in 1..(Len(s) + Len(t)) /\ ~(Len(s) + x <= Len(s))
            /\ Len(s) + x - Len(s) = x /\ i + (Len(s) + x) - 1 = i + Len(s) + x - 1
      BY <1>1
    <3>2. QED BY <2>1, <3>1
  <2>5. QED BY <2>3, <2>4
<1>4. ASSUME Has(b, i, s), Has(b, i + Len(s), t) PROVE Has(b, i, s \o t)
  <2>1. i + Len(s \o t) <= Len(b) + 1
    BY <1>1, <1>2, <1>4 DEF Has
  <2>2. ASSUME NEW x \in 1..Len(s \o t) PROVE b[i + x - 1] = (s \o t)[x]
    <3>1. x \in 1..(Len(s) + Len(t))
      BY <1>2
    <3>2. CASE x <= Len(s)
      <4>1. x \in 1..Len(s)
        BY <1>1, <3>1, <3>2
      <4>2. (s \o t)[x] = s[x]
        BY <1>2, <3>1, <3>2
      <4>3. b[i + x - 1] = s[x]
        BY <1>4, <4>1 DEF Has
      <4>4. QED BY <4>2, <4>3
    <3>3. CASE ~(x <= Len(s))
      <4> DEFINE y == x - Len(s)
      <4>1. y \in 1..Len(t) /\ i + Len(s) + y - 1 = i + x - 1
        BY <1>1, <3>1, <3>3
      <4>2. (s \o t)[x] = t[y]
        BY <1>2, <3>1, <3>3
      <4> HIDE DEF y
      <4>3. b[i + Len(s) + y - 1] = t[y]
        BY <1>4, <4>1 DEF Has
      <4>4. QED BY <4>1, <4>2, <4>3
    <3>4. QED BY <3>2, <3>3
  <2>3. QED BY <2>1, <2>2 DEF Has
<1>5. QED BY <1>3, <1>4

\* The cells that lie somewhere are cut out of there.
LEMMA HasCut ==
  ASSUME NEW b \in Cells, NEW i \in Places, NEW s \in Cells, Has(b, i, s)
  PROVE  /\ Cut(b, i, i + Len(s) - 1) = s
         /\ SubSeq(b, i, i + Len(s) - 1) = s
<1>1. Len(b) \in Nat /\ Len(s) \in Nat /\ i \in Nat /\ i >= 1
  BY LenProperties DEF Cells, Places
<1> DEFINE j == i + Len(s) - 1
           cut == SubSeq(b, i, j)
<1>2. j \in Int /\ j <= Len(b) /\ \A x \in 1..Len(s) : b[i + x - 1] = s[x]
  BY <1>1 DEF Has
<1>3. cut = s
  <2>1. \A k \in i..j : b[k] \in Nat
    BY <1>1, <1>2 DEF Cells
  <2>2. j + 1 - i = Len(s)
    BY <1>1
  <2>3. cut = [k \in 1..Len(s) |-> b[i + k - 1]]
    <3> HIDE DEF j
    <3>1. cut = [k \in 1..(j + 1 - i) |-> b[i + k - 1]]
      BY <1>1, <1>2
    <3>2. QED BY <2>2, <3>1
  <2>4. s = [k \in 1..Len(s) |-> s[k]]
    BY DEF Cells
  <2> HIDE DEF cut, j
  <2>5. QED BY <1>2, <2>3, <2>4
<1>4. Cut(b, i, j) = cut
  <2>1. ~(j > Len(b))
    BY <1>1, <1>2
  <2> HIDE DEF j
  <2>2. QED BY <2>1 DEF Cut
<1>5. QED BY <1>3, <1>4

LEMMA HasWhole ==
  ASSUME NEW b \in Cells, NEW s \in Cells
  PROVE  Has(b, 1, s) /\ Len(b) = Len(s) <=> b = s
<1>1. Len(b) \in Nat /\ Len(s) \in Nat
  BY LenProperties DEF Cells
<1>2. ASSUME Has(b, 1, s), Len(b) = Len(s) PROVE b = s
  <2>1. b = [x \in 1..Len(s) |-> b[x]] /\ s = [x \in 1..Len(s) |-> s[x]]
    BY <1>2 DEF Cells
  <2>2. \A x \in 1..Len(s) : b[x] = s[x]
    <3>1. \A x \in 1..Len(s) : 1 + x - 1 = x
      BY <1>1
    <3>2. QED BY <1>2, <3>1 DEF Has
  <2>3. QED BY <2>1, <2>2
<1>3. ASSUME b = s PROVE Has(b, 1, s) /\ Len(b) = Len(s)
  <2>1. \A x \in 1..Len(s) : b[1 + x - 1] = s[x]
    BY <1>1, <1>3
  <2>2. 1 + Len(s) <= Len(b) + 1
    BY <1>1, <1>3
  <2>3. QED BY <1>3, <2>1, <2>2 DEF Has
<1>4. QED BY <1>2, <1>3

\* Cells that a change leaves alone lie where they lay.
LEMMA HasKept ==
  ASSUME NEW b \in Cells, NEW c \in Cells, Len(c) = Len(b), NEW i \in Places, NEW s \in Cells,
         Has(b, i, s), \A k \in i..(i + Len(s) - 1) : c[k] = b[k]
  PROVE  Has(c, i, s)
<1>1. Len(s) \in Nat /\ i \in Nat
  BY LenProperties DEF Cells, Places
<1>2. \A x \in 1..Len(s) : i + x - 1 \in i..(i + Len(s) - 1)
  BY <1>1
<1>3. QED BY <1>2 DEF Has

-----------------------------------------------------------------------------
(* Lists of cells, laid one behind the other.                               *)

LEMMA Flat ==
  ASSUME NEW V, NEW q \in Seq(Seq(V))
  PROVE  \E F \in [0..Len(q) -> Seq(V)] :
            /\ F[0] = <<>> /\ F[Len(q)] = FlattenSeq(q)
            /\ \A k \in 1..Len(q) : F[k] = F[k - 1] \o q[k]
<1> DEFINE C == Seq(V)
           n == Len(q)
           flatten[i \in 1..Len(q)] == IF i = 1 THEN q[i] ELSE flatten[i - 1] \o q[i]
           step == [k \in 1..n |-> [x \in C |-> x \o q[k]]]
<1>1. n \in Nat /\ \A k \in 1..n : q[k] \in C
  OBVIOUS
<1>2. CASE n = 0
  <2>1. FlattenSeq(q) = q /\ q = <<>>
    BY <1>2 DEF FlattenSeq
  <2> DEFINE F == [k \in 0..n |-> <<>>]
  <2>2. F \in [0..n -> C] /\ F[0] = <<>> /\ F[n] = FlattenSeq(q)
    BY <1>2, <2>1
  <2>3. \A k \in 1..n : F[k] = F[k - 1] \o q[k]
    BY <1>2
  <2> HIDE DEF F
  <2>4. QED BY <2>2, <2>3
<1>3. CASE n # 0
  <2>1. q[1] \in C
    BY <1>1, <1>3
  <2>2. step \in Steps(n, C)
    <3>1. \A k \in 1..n : \A x \in C : x \o q[k] \in C
      BY <1>1, ConcatProperties
    <3> HIDE DEF C, n
    <3>2. QED BY <3>1 DEF Steps
  <2>3. PICK f \in [1..n -> C] : Chain(f, n, q[1], step)
    <3> HIDE DEF C, n, step
    <3>1. QED BY <1>1, <2>1, <2>2, ChainExists
  <2>4. f = [i \in 1..Len(q) |-> IF i = 1 THEN q[i] ELSE f[i - 1] \o q[i]]
    <3> HIDE DEF flatten
    <3>1. \A i \in 1..n : f[i] = IF i = 1 THEN q[i] ELSE f[i - 1] \o q[i]
      <4> SUFFICES ASSUME NEW i \in 1..n
                   PROVE  f[i] = IF i = 1 THEN q[i] ELSE f[i - 1] \o q[i]
        OBVIOUS
      <4>1. i # 1 => f[i - 1] \in C
        <5> HIDE DEF C, n, step
        <5>1. i # 1 => i - 1 \in 1..n
          BY <1>1
        <5>2. QED BY <5>1
      <4>2. i # 1 => step[i][f[i - 1]] = f[i - 1] \o q[i]
        BY <4>1
      <4> HIDE DEF step, n, C
      <4>3. QED BY <2>3, <4>2 DEF Chain
    <3>2. QED BY <3>1
  <2>5. flatten = [i \in 1..Len(q) |-> IF i = 1 THEN q[i] ELSE flatten[i - 1] \o q[i]]
    BY <2>4, Zenon DEF flatten
  <2>6. \A k \in 1..n : flatten[k] \in C
    <3> HIDE DEF flatten
    <3>1. flatten[1] \in C
      BY <1>1, <1>3, <2>5
    <3>2. \A k \in 2..n : flatten[k - 1] \in C => flatten[k] \in C
      <4> SUFFICES ASSUME NEW k \in 2..n, flatten[k - 1] \in C PROVE flatten[k] \in C
        OBVIOUS
      <4>1. k \in 1..n /\ k # 1
        BY <1>1
      <4>2. flatten[k] = flatten[k - 1] \o q[k]
        BY <2>5, <4>1
      <4>3. q[k] \in C
        BY <1>1, <4>1
      <4>4. QED BY <4>2, <4>3, ConcatProperties
    <3> HIDE DEF C, n
    <3>3. QED BY <1>1, <3>1, <3>2, ChainTyped
  <2>7. FlattenSeq(q) = flatten[n]
    BY <1>3 DEF FlattenSeq
  <2> DEFINE F == [k \in 0..n |-> IF k = 0 THEN <<>> ELSE flatten[k]]
  <2>8. F \in [0..n -> C]
    <3> HIDE DEF flatten, n
    <3>1. \A k \in 0..n : k # 0 => k \in 1..n
      BY <1>1
    <3>2. QED BY <2>6, <3>1
  <2>9. F[0] = <<>> /\ F[n] = FlattenSeq(q)
    <3> HIDE DEF flatten
    <3>1. 0 \in 0..n /\ n \in 0..n
      BY <1>1
    <3>2. QED BY <1>3, <2>7, <3>1
  <2>10. \A k \in 1..n : F[k] = F[k - 1] \o q[k]
    <3> HIDE DEF flatten
    <3> SUFFICES ASSUME NEW k \in 1..n PROVE F[k] = F[k - 1] \o q[k]
      OBVIOUS
    <3>1. k \in 0..n /\ k - 1 \in 0..n /\ k # 0
      BY <1>1
    <3>2. CASE k = 1
      <4>1. F[k] = q[1] /\ F[k - 1] = <<>>
        BY <2>5, <3>1, <3>2
      <4>2. <<>> \o q[1] = q[1]
        BY <2>1
      <4>3. QED BY <3>2, <4>1, <4>2
    <3>3. CASE k # 1
      <4>1. flatten[k] = flatten[k - 1] \o q[k]
        BY <2>5, <3>3
      <4>2. F[k] = flatten[k] /\ F[k - 1] = flatten[k - 1]
        BY <1>1, <3>1, <3>3
      <4>3. QED BY <4>1, <4>2
    <3>4. QED BY <3>2, <3>3
  <2> HIDE DEF F, flatten
  <2>11. QED BY <2>8, <2>9, <2>10
<1>4. QED BY <1>2, <1>3

LEMMA Flattened == ASSUME NEW V, NEW q \in Seq(Seq(V)) PROVE FlattenSeq(q) \in Seq(V)
<1>1. Len(q) \in 0..Len(q)
  OBVIOUS
<1>2. PICK F \in [0..Len(q) -> Seq(V)] : F[Len(q)] = FlattenSeq(q)
  BY Flat
<1>3. QED BY <1>1, <1>2

(* at: where the parts ss lie, the first one in cell lo, and where the last *)
(* one ends.                                                                *)
Layout(at, lo, ss) ==
    /\ at \in [1..(Len(ss) + 1) -> Places]
    /\ at[1] = lo
    /\ \A k \in 1..Len(ss) : at[k + 1] = at[k] + Len(ss[k])

LEMMA LayoutExists ==
  ASSUME NEW ss \in Seq(Cells), NEW lo \in Places PROVE \E at : Layout(at, lo, ss)
<1> DEFINE n == Len(ss) + 1
           step == [k \in 1..n |-> [x \in Places |-> IF k = 1 THEN x ELSE x + Len(ss[k - 1])]]
<1>1. Len(ss) \in Nat /\ n \in Nat
  OBVIOUS
<1>2. \A k \in 1..n : k # 1 => k - 1 \in 1..Len(ss) /\ Len(ss[k - 1]) \in Nat
  <2>1. \A k \in 1..n : k # 1 => k - 1 \in 1..Len(ss)
    BY <1>1
  <2>2. \A j \in 1..Len(ss) : Len(ss[j]) \in Nat
    BY LenProperties DEF Cells
  <2>3. QED BY <2>1, <2>2
<1>3. step \in Steps(n, Places)
  <2> HIDE DEF n
  <2>1. \A k \in 1..n, x \in Places : (IF k = 1 THEN x ELSE x + Len(ss[k - 1])) \in Places
    BY <1>2 DEF Places
  <2>2. QED BY <2>1 DEF Steps
<1>4. PICK f \in [1..n -> Places] : Chain(f, n, lo, step)
  <2> HIDE DEF n, step
  <2>1. QED BY <1>1, <1>3, ChainExists
<1>5. f[1] = lo
  <2>1. 1 \in 1..n
    BY <1>1
  <2> HIDE DEF n, step
  <2>2. QED BY <1>4, <2>1 DEF Chain
<1>6. \A k \in 1..Len(ss) : f[k + 1] = f[k] + Len(ss[k])
  <2> SUFFICES ASSUME NEW k \in 1..Len(ss) PROVE f[k + 1] = f[k] + Len(ss[k])
    OBVIOUS
  <2>1. k \in 1..n /\ k + 1 \in 1..n /\ k + 1 # 1 /\ (k + 1) - 1 = k
    BY <1>1
  <2>2. f[k + 1] = step[k + 1][f[k]]
    <3> HIDE DEF n, step
    <3>1. QED BY <1>4, <2>1 DEF Chain
  <2>3. f[k] \in Places
    <3> HIDE DEF n, step
    <3>1. QED BY <2>1
  <2>4. step[k + 1][f[k]] = f[k] + Len(ss[k])
    <3> HIDE DEF n
    <3>1. QED BY <2>1, <2>3
  <2>5. QED BY <2>2, <2>4
<1>7. QED BY <1>4, <1>5, <1>6 DEF Layout

LEMMA LayoutOrder ==
  ASSUME NEW ss \in Seq(Cells), NEW lo, NEW at, Layout(at, lo, ss),
         NEW j \in 1..Len(ss), NEW k \in (j + 1)..(Len(ss) + 1)
  PROVE  at[j] + Len(ss[j]) <= at[k]
<1> DEFINE S == {m \in Nat : j + 1 + m <= Len(ss) + 1 => at[j + 1] <= at[j + 1 + m]}
<1>1. Len(ss) \in Nat /\ \A i \in 1..(Len(ss) + 1) : at[i] \in Nat
  BY DEF Layout, Places
<1>2. \A i \in 1..Len(ss) : Len(ss[i]) \in Nat /\ at[i + 1] = at[i] + Len(ss[i])
  BY LenProperties DEF Layout, Cells
<1>3. 0 \in S
  <2>1. j + 1 + 0 = j + 1 /\ j + 1 \in 1..(Len(ss) + 1)
    BY <1>1
  <2>2. QED BY <1>1, <2>1
<1>4. ASSUME NEW m \in S PROVE m + 1 \in S
  <2>0. m \in Nat
    OBVIOUS
  <2> SUFFICES ASSUME j + 1 + (m + 1) <= Len(ss) + 1 PROVE at[j + 1] <= at[j + 1 + (m + 1)]
    BY <2>0
  <2>1. j + 1 + m \in 1..Len(ss) /\ j + 1 + m <= Len(ss) + 1
          /\ j + 1 + (m + 1) = (j + 1 + m) + 1 /\ j + 1 \in 1..(Len(ss) + 1)
    BY <1>1, <2>0
  <2>2. at[j + 1] <= at[j + 1 + m]
    BY <2>1
  <2>3. at[(j + 1 + m) + 1] = at[j + 1 + m] + Len(ss[j + 1 + m])
          /\ Len(ss[j + 1 + m]) \in Nat
    BY <1>2, <2>1
  <2>4. at[j + 1 + m] \in Nat /\ at[j + 1] \in Nat
    BY <1>1, <2>1
  <2>5. QED BY <2>1, <2>2, <2>3, <2>4
<1>5. k - (j + 1) \in S
  <2> HIDE DEF S
  <2>1. S \in SUBSET Nat
    BY DEF S
  <2>2. k - (j + 1) \in Nat
    BY <1>1
  <2>3. QED BY <1>3, <1>4, <2>1, <2>2, Induction
<1>6. j + 1 + (k - (j + 1)) = k
  BY <1>1
<1>7. at[j + 1] <= at[k]
  BY <1>1, <1>5, <1>6
<1>8. QED BY <1>2, <1>7

\* A list lies where each of its parts does.
LEMMA LayoutHas ==
  ASSUME NEW ss \in Seq(Cells), NEW lo \in Places, NEW at, Layout(at, lo, ss)
  PROVE  /\ FlattenSeq(ss) \in Cells
         /\ at[Len(ss) + 1] = lo + Len(FlattenSeq(ss))
         /\ \A b \in Cells : Has(b, lo, FlattenSeq(ss)) <=>
              (\A k \in 1..Len(ss) : Has(b, at[k], ss[k])) /\ at[Len(ss) + 1] <= Len(b) + 1
<1> DEFINE n == Len(ss)
<1>1. n \in Nat /\ \A k \in 1..n : ss[k] \in Cells
  OBVIOUS
<1>2. PICK F \in [0..n -> Cells] : F[0] = <<>> /\ F[n] = FlattenSeq(ss)
                                    /\ \A k \in 1..n : F[k] = F[k - 1] \o ss[k]
  BY Flat DEF Cells
<1> DEFINE S == {m \in Nat : m <= n =>
                   /\ at[m + 1] = lo + Len(F[m])
                   /\ \A b \in Cells : Has(b, lo, F[m]) <=>
                        (\A k \in 1..m : Has(b, at[k], ss[k])) /\ at[m + 1] <= Len(b) + 1}
<1>3. 0 \in S
  <2>1. at[0 + 1] = lo + Len(F[0])
    BY <1>2 DEF Layout, Places
  <2>2. \A b \in Cells : Has(b, lo, F[0]) <=> at[0 + 1] <= Len(b) + 1
    BY <1>2, HasNone DEF Layout
  <2>3. QED BY <2>1, <2>2
<1>4. ASSUME NEW m \in S PROVE m + 1 \in S
  <2>0. m \in Nat
    OBVIOUS
  <2> SUFFICES ASSUME m + 1 <= n
      PROVE /\ at[m + 1 + 1] = lo + Len(F[m + 1])
            /\ \A b \in Cells : Has(b, lo, F[m + 1]) <=>
                 (\A k \in 1..(m + 1) : Has(b, at[k], ss[k])) /\ at[m + 1 + 1] <= Len(b) + 1
    BY <2>0
  <2>1. m + 1 \in 1..n /\ m \in 0..n /\ (m + 1) - 1 = m /\ m <= n
    BY <1>1, <2>0
  <2>2. /\ at[m + 1] = lo + Len(F[m])
        /\ \A b \in Cells : Has(b, lo, F[m]) <=>
             (\A k \in 1..m : Has(b, at[k], ss[k])) /\ at[m + 1] <= Len(b) + 1
    BY <2>1
  <2> HIDE DEF S, n
  <2>3. F[m + 1] = F[m] \o ss[m + 1] /\ F[m] \in Cells /\ ss[m + 1] \in Cells
    BY <1>1, <1>2, <2>1
  <2>4. Len(F[m + 1]) = Len(F[m]) + Len(ss[m + 1])
    BY <2>3 DEF Cells
  <2>5. at[m + 1 + 1] = at[m + 1] + Len(ss[m + 1])
    BY <2>1 DEF Layout, n
  <2>6. Len(F[m]) \in Nat /\ Len(ss[m + 1]) \in Nat /\ lo \in Nat
    BY <2>3, LenProperties DEF Cells, Places
  <2>7. at[m + 1 + 1] = lo + Len(F[m + 1])
    <3> DEFINE x == Len(F[m])
               y == Len(ss[m + 1])
               z == Len(F[m + 1])
               i == at[m + 1]
               j == at[m + 1 + 1]
    <3>1. i = lo + x /\ j = i + y /\ z = x + y /\ x \in Nat /\ y \in Nat /\ lo \in Nat
      BY <2>2, <2>4, <2>5, <2>6
    <3> HIDE DEF x, y, z, i, j
    <3>2. j = lo + z
      BY <3>1
    <3>3. QED BY <3>2 DEF j, z
  <2>8. ASSUME NEW b \in Cells
        PROVE  Has(b, lo, F[m + 1]) <=>
                 (\A k \in 1..(m + 1) : Has(b, at[k], ss[k])) /\ at[m + 1 + 1] <= Len(b) + 1
    <3>1. Has(b, lo, F[m + 1]) <=> Has(b, lo, F[m]) /\ Has(b, at[m + 1], ss[m + 1])
      BY <2>2, <2>3, HasConcat
    <3>2. Has(b, at[m + 1], ss[m + 1]) => at[m + 1 + 1] <= Len(b) + 1
      BY <2>5 DEF Has
    <3>3. at[m + 1 + 1] <= Len(b) + 1 => at[m + 1] <= Len(b) + 1
      <4>1. Len(b) \in Nat
        BY LenProperties DEF Cells
      <4>2. at[m + 1] \in Nat
        BY <2>2, <2>6
      <4>3. QED BY <2>5, <2>6, <4>1, <4>2
    <3>4. (\A k \in 1..(m + 1) : Has(b, at[k], ss[k]))
            <=> (\A k \in 1..m : Has(b, at[k], ss[k])) /\ Has(b, at[m + 1], ss[m + 1])
      <4>1. 1..(m + 1) = 1..m \cup {m + 1}
        BY <2>0
      <4>2. QED BY <4>1
    <3>5. QED BY <2>2, <3>1, <3>2, <3>3, <3>4
  <2>9. QED BY <2>7, <2>8
<1>5. n \in S
  <2> HIDE DEF S
  <2>1. S \in SUBSET Nat
    BY DEF S
  <2>2. QED BY <1>1, <1>3, <1>4, <2>1, Induction
<1>6. /\ at[n + 1] = lo + Len(F[n])
      /\ \A b \in Cells : Has(b, lo, F[n]) <=>
           (\A k \in 1..n : Has(b, at[k], ss[k])) /\ at[n + 1] <= Len(b) + 1
  BY <1>1, <1>5
<1>7. F[n] \in Cells
  <2>1. n \in 0..n
    BY <1>1
  <2>2. QED BY <2>1
<1>8. QED BY <1>2, <1>6, <1>7

-----------------------------------------------------------------------------
(* Flags in a cell, and two numbers in one.                                 *)

LEMMA SegmentationBits ==
  ASSUME NEW x \in {0, 128}, NEW y \in {0, 64}, NEW l \in 0..32
  PROVE  /\ (Bit(x + y + l, 128) <=> x = 128) /\ (Bit(x + y + l, 64) <=> y = 64)
         /\ (Bit(x + y + l, 32) <=> l = 32)
         /\ (l # 32 => (x + y + l) % 32 = l) /\ ((x + y + l) \div 64) * 64 = x + y
<1>1. CASE x = 0 /\ y = 0
  <2>1. CASE l = 32
    BY <1>1, <2>1 DEF Bit
  <2>2. CASE l # 32
    BY <1>1, <2>2 DEF Bit
  <2>3. QED BY <2>1, <2>2
<1>2. CASE x = 0 /\ y = 64
  BY <1>2 DEF Bit
<1>3. CASE x = 128 /\ y = 0
  BY <1>3 DEF Bit
<1>4. CASE x = 128 /\ y = 64
  BY <1>4 DEF Bit
<1>5. QED BY <1>1, <1>2, <1>3, <1>4

LEMMA InsertBits ==
  ASSUME NEW p \in {0, 128}, NEW q \in {0, 64}, NEW r \in {0, 32}, NEW t \in {0, 16}
  PROVE  /\ p + q + r + t \in Nat
         /\ (Bit(p + q + r + t, 128) <=> p = 128) /\ (Bit(p + q + r + t, 64) <=> q = 64)
         /\ (Bit(p + q + r + t, 32) <=> r = 32) /\ (Bit(p + q + r + t, 16) <=> t = 16)
BY DEF Bit

LEMMA Split ==
  ASSUME NEW m \in Nat \ {0}, NEW q \in Nat, NEW r \in Nat, r < m
  PROVE  (q * m + r) \div m = q /\ (q * m + r) % m = r
OBVIOUS

-----------------------------------------------------------------------------
(* The cells of a descriptor.                                               *)

LEMMA Given ==
  ASSUME NEW S, NEW x \in Maybe(S)
  PROVE  /\ x \in Seq(S) /\ (x = NoneNamed \/ (Len(x) = 1 /\ x[1] \in S /\ x = <<x[1]>>))
         /\ \A d \in S : Some(x, d) \in S
<1>1. x \in Seq(S) /\ Len(x) <= 1 /\ Len(x) \in Nat
  BY LenProperties DEF Maybe
<1>2. ASSUME x # NoneNamed PROVE Len(x) = 1 /\ x[1] \in S /\ x = <<x[1]>>
  <2>1. Len(x) = 1
    <3> DEFINE n == Len(x)
    <3>1. n # 0
      BY <1>1, <1>2, EmptySeq DEF NoneNamed
    <3>2. n \in Nat /\ n <= 1
      BY <1>1
    <3> HIDE DEF n
    <3>3. n = 1
      BY <3>1, <3>2
    <3>4. QED BY <3>3 DEF n
  <2>2. QED BY <1>1, <2>1
<1>3. QED BY <1>1, <1>2 DEF Some

LEMMA Joined ==
  ASSUME NEW s \in Cells, NEW t \in Cells
  PROVE  /\ s \o t \in Cells /\ Len(s) \in Nat /\ Len(t) \in Nat
         /\ Len(s \o t) = Len(s) + Len(t)
         /\ \A x \in 1..Len(s) : (s \o t)[x] = s[x]
BY ConcatProperties, LenProperties DEF Cells

LEMMA HasTwo ==
  ASSUME NEW b \in Cells, NEW i \in Places, NEW v, NEW w
  PROVE  Has(b, i, <<v, w>>) <=> i + 1 \in DOMAIN b /\ b[i] = v /\ b[i + 1] = w
<1>1. Len(b) \in Nat /\ DOMAIN b = 1..Len(b) /\ i \in Nat /\ i >= 1
  BY LenProperties DEF Cells, Places
<1>2. i + 1 - 1 = i /\ i + 2 - 1 = i + 1
  BY <1>1
<1>3. Has(b, i, <<v, w>>) <=> i + 2 <= Len(b) + 1 /\ b[i + 1 - 1] = v /\ b[i + 2 - 1] = w
  BY DEF Has
<1>4. QED BY <1>1, <1>2, <1>3

LEMMA HasThree ==
  ASSUME NEW b \in Cells, NEW i \in Places, NEW v, NEW w, NEW x
  PROVE  Has(b, i, <<v, w, x>>)
           <=> i + 2 \in DOMAIN b /\ b[i] = v /\ b[i + 1] = w /\ b[i + 2] = x
<1>1. Len(b) \in Nat /\ DOMAIN b = 1..Len(b) /\ i \in Nat /\ i >= 1
  BY LenProperties DEF Cells, Places
<1>2. i + 1 - 1 = i /\ i + 2 - 1 = i + 1 /\ i + 3 - 1 = i + 2
  BY <1>1
<1>3. Has(b, i, <<v, w, x>>) <=> /\ i + 3 <= Len(b) + 1 /\ b[i + 1 - 1] = v
                                 /\ b[i + 2 - 1] = w /\ b[i + 3 - 1] = x
  BY DEF Has
<1>4. QED BY <1>1, <1>2, <1>3

Components(d) ==
    IF d.components = NoneNamed THEN <<>>
    ELSE <<Len(d.components[1])>> \o d.components[1]

SegFlags(d) ==
    Flag(d.components = NoneNamed, 128) + Flag(d.dur # NoneNamed, 64)
      + IF d.limits = NoneNamed THEN 32 ELSE d.limits[1]

\* Where the UPID type, and where the segmentation type lies, from the tag on.
UpidAt(d) == 5 + Len(Components(d)) + Len(d.dur)

TypeAt(d) == UpidAt(d) + 2 + Len(d.upid)

LEMMA SegmentationTyped ==
  ASSUME NEW d \in Segmentations
  PROVE  /\ d.tag = SegTag /\ d.cancel = FALSE /\ d.id \in Nat /\ d.upidType \in Nat
         /\ d.typeId \in Nat /\ d.upid \in Cells /\ d.rest \in Cells /\ d.dur \in Cells
         /\ Len(d.rest) \in Nat /\ Len(d.rest) >= 2 /\ Len(d.upid) \in Nat
         /\ d.components \in Maybe(Cells) /\ d.dur \in Maybe(Nat)
         /\ Components(d) \in Cells /\ Len(Components(d)) \in Nat
         /\ Len(d.dur) = IF d.dur = NoneNamed THEN 0 ELSE 1
         /\ d.limits = NoneNamed \/ (d.limits[1] \in 0..31 /\ d.limits = <<d.limits[1]>>)
         /\ SegFlags(d) \in Nat
         /\ UpidAt(d) \in Nat /\ UpidAt(d) >= 5
         /\ TypeAt(d) \in Nat /\ TypeAt(d) >= UpidAt(d) + 2
<1>1. /\ d.tag = SegTag /\ d.cancel = FALSE /\ d.id \in Nat /\ d.upidType \in Nat
      /\ d.typeId \in Nat /\ d.upid \in Cells /\ d.rest \in Cells
      /\ Len(d.rest) >= 2 /\ d.components \in Maybe(Cells)
      /\ d.dur \in Maybe(Nat) /\ d.limits \in Maybe(0..31)
  BY DEF Segmentations, Cells
<1>2. Len(d.rest) \in Nat /\ Len(d.upid) \in Nat
  BY <1>1, LenProperties DEF Cells
<1>3. d.dur \in Cells /\ Len(d.dur) = IF d.dur = NoneNamed THEN 0 ELSE 1
  <2>1. d.dur \in Cells /\ (d.dur = NoneNamed \/ Len(d.dur) = 1)
    <3> DEFINE C == Nat
    <3>1. d.dur \in Maybe(C)
      BY <1>1
    <3>2. d.dur \in Seq(C) /\ (d.dur = NoneNamed \/ Len(d.dur) = 1)
      <4> HIDE DEF C
      <4>1. QED BY <3>1, Given
    <3>3. QED BY <3>2 DEF Cells
  <2>2. d.dur = NoneNamed => Len(d.dur) = 0
    BY DEF NoneNamed
  <2>3. QED BY <2>1, <2>2
<1>4. Components(d) \in Cells /\ Len(Components(d)) \in Nat
  <2>1. d.components = NoneNamed \/ d.components[1] \in Cells
    BY <1>1, Given
  <2>2. CASE d.components = NoneNamed
    BY <2>2, LenProperties DEF Components, Cells
  <2>3. CASE d.components # NoneNamed
    <3> DEFINE tags == d.components[1]
    <3>1. tags \in Cells
      BY <2>1, <2>3
    <3> HIDE DEF tags
    <3>2. Len(tags) \in Nat
      BY <3>1, LenProperties DEF Cells
    <3>3. <<Len(tags)>> \o tags \in Cells
      BY <3>1, <3>2 DEF Cells
    <3>4. Len(<<Len(tags)>> \o tags) \in Nat
      BY <3>3, LenProperties DEF Cells
    <3>5. QED BY <2>3, <3>3, <3>4 DEF Components, tags
  <2>4. QED BY <2>2, <2>3
<1>5. d.limits = NoneNamed \/ (d.limits[1] \in 0..31 /\ d.limits = <<d.limits[1]>>)
  <2> DEFINE C == 0..31
  <2>1. d.limits \in Maybe(C)
    BY <1>1
  <2>2. d.limits = NoneNamed \/ (d.limits[1] \in C /\ d.limits = <<d.limits[1]>>)
    <3> HIDE DEF C
    <3>1. QED BY <2>1, Given
  <2>3. QED BY <2>2
<1>6. SegFlags(d) \in Nat
  <2>1. Flag(d.components = NoneNamed, 128) \in Nat /\ Flag(d.dur # NoneNamed, 64) \in Nat
    BY DEF Flag
  <2>2. QED BY <1>5, <2>1 DEF SegFlags
<1>7. UpidAt(d) \in Nat /\ UpidAt(d) >= 5
  BY <1>3, <1>4 DEF UpidAt
<1>8. TypeAt(d) \in Nat /\ TypeAt(d) >= UpidAt(d) + 2
  BY <1>2, <1>7 DEF TypeAt
<1>9. QED BY <1>1, <1>2, <1>3, <1>4, <1>5, <1>6, <1>7, <1>8

\* What cells i, i + 1, ... of a body hold where a segmentation descriptor lies.
SegmentationLies(b, i, d) ==
    /\ Has(b, i, <<SegTag, TypeAt(d) - 1 + Len(d.rest)>>)
    /\ Has(b, i + 2, <<d.id, 0, SegFlags(d)>>)
    /\ Has(b, i + 5, Components(d))
    /\ Has(b, i + 5 + Len(Components(d)), d.dur)
    /\ Has(b, i + UpidAt(d), <<d.upidType, Len(d.upid)>>)
    /\ Has(b, i + UpidAt(d) + 2, d.upid)
    /\ Has(b, i + TypeAt(d), <<d.typeId>>)
    /\ Has(b, i + TypeAt(d) + 1, d.rest)

LEMMA SegmentationForm ==
  ASSUME NEW d \in Segmentations
  PROVE  /\ DescriptorCells(d) \in Cells
         /\ Len(DescriptorCells(d)) = TypeAt(d) + 1 + Len(d.rest)
         /\ DescriptorCells(d)[2] = TypeAt(d) - 1 + Len(d.rest)
         /\ \A b \in Cells, i \in Places :
              Has(b, i, DescriptorCells(d)) <=> SegmentationLies(b, i, d)
<1> DEFINE s1 == <<d.id, 0, SegFlags(d)>>
           s2 == Components(d)
           s3 == d.dur
           s4 == <<d.upidType, Len(d.upid)>>
           s5 == d.upid
           s6 == <<d.typeId>>
           s7 == d.rest
           body == s1 \o s2 \o s3 \o s4 \o s5 \o s6 \o s7
           head == <<SegTag, Len(body)>>
<1>1. DescriptorCells(d) = head \o body
  BY SegmentationTyped DEF DescriptorCells, Components, SegFlags
<1>2. /\ s1 \in Cells /\ s2 \in Cells /\ s3 \in Cells /\ s4 \in Cells /\ s5 \in Cells
      /\ s6 \in Cells /\ s7 \in Cells
  <2>1. s1 \in Cells /\ s4 \in Cells /\ s6 \in Cells
    <3> DEFINE n == SegFlags(d)
               u == Len(d.upid)
    <3>1. d.id \in Nat /\ n \in Nat /\ d.upidType \in Nat /\ u \in Nat /\ d.typeId \in Nat
      BY SegmentationTyped
    <3> HIDE DEF n, u
    <3>2. <<d.id, 0, n>> \in Cells /\ <<d.upidType, u>> \in Cells /\ <<d.typeId>> \in Cells
      BY <3>1 DEF Cells
    <3>3. QED BY <3>2 DEF n, u
  <2>2. QED BY <2>1, SegmentationTyped
<1>3. Len(s1) = 3 /\ Len(s4) = 2 /\ Len(s6) = 1
  OBVIOUS
<1>4. Len(s2) \in Nat /\ Len(s3) \in Nat /\ Len(s5) \in Nat /\ Len(s7) \in Nat
  BY <1>2, LenProperties DEF Cells
<1>5. UpidAt(d) = 5 + Len(s2) + Len(s3) /\ TypeAt(d) = UpidAt(d) + 2 + Len(s5)
  BY DEF UpidAt, TypeAt
<1> DEFINE p2 == s1 \o s2
           p3 == p2 \o s3
           p4 == p3 \o s4
           p5 == p4 \o s5
           p6 == p5 \o s6
           p7 == p6 \o s7
<1>6. body = p7
  OBVIOUS
<1> HIDE DEF s1, s2, s3, s4, s5, s6, s7
<1>7. /\ p2 \in Cells /\ p3 \in Cells /\ p4 \in Cells /\ p5 \in Cells /\ p6 \in Cells
      /\ p7 \in Cells
  <2>1. p2 \in Cells
    BY <1>2, Joined
  <2> HIDE DEF p2
  <2>2. p3 \in Cells
    BY <1>2, <2>1, Joined
  <2> HIDE DEF p3
  <2>3. p4 \in Cells
    BY <1>2, <2>2, Joined
  <2> HIDE DEF p4
  <2>4. p5 \in Cells
    BY <1>2, <2>3, Joined
  <2> HIDE DEF p5
  <2>5. p6 \in Cells
    BY <1>2, <2>4, Joined
  <2> HIDE DEF p6
  <2>6. p7 \in Cells
    BY <1>2, <2>5, Joined
  <2>7. QED BY <2>1, <2>2, <2>3, <2>4, <2>5, <2>6
<1>8. Len(p2) = 3 + Len(s2)
  <2>1. Len(p2) = Len(s1) + Len(s2)
    <3> HIDE DEF p3, p4, p5, p6, p7, body, head
    <3>1. QED BY <1>2, Joined
  <2> HIDE DEF p2
  <2>2. QED BY <1>3, <2>1
<1> HIDE DEF p2
<1>9. Len(p3) = UpidAt(d) - 2
  <2>1. Len(p3) = Len(p2) + Len(s3)
    BY <1>2, <1>7, Joined
  <2> HIDE DEF p3
  <2>2. QED BY <1>4, <1>5, <1>8, <2>1
<1> HIDE DEF p3
<1>10. Len(p4) = UpidAt(d)
  <2>1. Len(p4) = Len(p3) + Len(s4)
    BY <1>2, <1>7, Joined
  <2> HIDE DEF p4
  <2>2. QED BY <1>3, <1>4, <1>5, <1>9, <2>1
<1> HIDE DEF p4
<1>11. Len(p5) = TypeAt(d) - 2
  <2>1. Len(p5) = Len(p4) + Len(s5)
    BY <1>2, <1>7, Joined
  <2> HIDE DEF p5
  <2>2. QED BY <1>4, <1>5, <1>10, <2>1
<1> HIDE DEF p5
<1>12. Len(p6) = TypeAt(d) - 1
  <2>1. Len(p6) = Len(p5) + Len(s6)
    BY <1>2, <1>7, Joined
  <2> HIDE DEF p6
  <2>2. QED BY <1>3, <1>4, <1>5, <1>11, <2>1
<1> HIDE DEF p6
<1>13. Len(p7) = TypeAt(d) - 1 + Len(s7)
  <2>1. Len(p7) = Len(p6) + Len(s7)
    BY <1>2, <1>7, Joined
  <2> HIDE DEF p7
  <2>2. QED BY <1>12, <2>1
<1> HIDE DEF p7, body
<1>14. UpidAt(d) \in Nat /\ TypeAt(d) \in Nat /\ TypeAt(d) >= 2 /\ UpidAt(d) >= 2
  BY <1>4, <1>5
<1>15. head \in Cells /\ Len(head) = 2 /\ head[2] = Len(body)
  BY <1>4, <1>6, <1>13, <1>14 DEF Cells, SegTag
<1>16. Len(head \o body) = TypeAt(d) + 1 + Len(s7)
         /\ (head \o body)[2] = TypeAt(d) - 1 + Len(s7) /\ head \o body \in Cells
  <2> HIDE DEF head
  <2>1. Len(head \o body) = 2 + Len(body) /\ (head \o body)[2] = head[2]
          /\ head \o body \in Cells
    <3>1. Len(body) \in Nat
      BY <1>4, <1>6, <1>13, <1>14
    <3>2. body \in Cells /\ 2 \in 1..Len(head)
      BY <1>6, <1>7, <1>15
    <3>3. QED BY <1>15, <3>2, Joined
  <2>2. QED BY <1>4, <1>6, <1>13, <1>14, <1>15, <2>1, SMTT(30)
<1>17. ASSUME NEW b \in Cells, NEW i \in Places
       PROVE  Has(b, i, head \o body) <=> SegmentationLies(b, i, d)
  <2> DEFINE j == i + 2
  <2>1. j \in Places /\ i \in Nat
    BY DEF Places
  <2>2. Has(b, i, head \o body) <=> Has(b, i, head) /\ Has(b, j, body)
    <3> HIDE DEF head
    <3>1. QED BY <1>6, <1>7, <1>15, HasConcat
  <2> HIDE DEF j
  <2>3. Has(b, j, body) <=> Has(b, j, p6) /\ Has(b, j + Len(p6), s7)
    BY <1>2, <1>6, <1>7, <2>1, HasConcat DEF p7
  <2>4. Has(b, j, p6) <=> Has(b, j, p5) /\ Has(b, j + Len(p5), s6)
    BY <1>2, <1>7, <2>1, HasConcat DEF p6
  <2>5. Has(b, j, p5) <=> Has(b, j, p4) /\ Has(b, j + Len(p4), s5)
    BY <1>2, <1>7, <2>1, HasConcat DEF p5
  <2>6. Has(b, j, p4) <=> Has(b, j, p3) /\ Has(b, j + Len(p3), s4)
    BY <1>2, <1>7, <2>1, HasConcat DEF p4
  <2>7. Has(b, j, p3) <=> Has(b, j, p2) /\ Has(b, j + Len(p2), s3)
    BY <1>2, <1>7, <2>1, HasConcat DEF p3
  <2>8. Has(b, j, p2) <=> Has(b, j, s1) /\ Has(b, j + Len(s1), s2)
    BY <1>2, <2>1, HasConcat DEF p2
  <2>9. /\ j + Len(p6) = i + TypeAt(d) + 1 /\ j + Len(p5) = i + TypeAt(d)
        /\ j + Len(p4) = i + UpidAt(d) + 2 /\ j + Len(p3) = i + UpidAt(d)
        /\ j + Len(p2) = i + 5 + Len(s2) /\ j + Len(s1) = i + 5
    <3>1. j = i + 2 /\ i \in Nat
      BY <2>1 DEF j
    <3>2. j + Len(p6) = i + TypeAt(d) + 1 /\ j + Len(p5) = i + TypeAt(d)
      BY <1>11, <1>12, <1>14, <3>1
    <3>3. j + Len(p4) = i + UpidAt(d) + 2 /\ j + Len(p3) = i + UpidAt(d)
      BY <1>9, <1>10, <1>14, <3>1
    <3>4. j + Len(p2) = i + 5 + Len(s2) /\ j + Len(s1) = i + 5
      BY <1>3, <1>4, <1>8, <3>1
    <3>5. QED BY <3>2, <3>3, <3>4
  <2>10. head = <<SegTag, TypeAt(d) - 1 + Len(d.rest)>>
    BY <1>6, <1>13 DEF s7
  <2>11. SegmentationLies(b, i, d) <=>
           /\ Has(b, i, head) /\ Has(b, j, s1) /\ Has(b, i + 5, s2)
           /\ Has(b, i + 5 + Len(s2), s3) /\ Has(b, i + UpidAt(d), s4)
           /\ Has(b, i + UpidAt(d) + 2, s5) /\ Has(b, i + TypeAt(d), s6)
           /\ Has(b, i + TypeAt(d) + 1, s7)
    <3> HIDE DEF head
    <3>1. QED BY <2>10 DEF SegmentationLies, s1, s2, s3, s4, s5, s6, s7, j
  <2> HIDE DEF head
  <2>12. QED BY <2>2, <2>3, <2>4, <2>5, <2>6, <2>7, <2>8, <2>9, <2>11
<1>18. QED BY <1>1, <1>16, <1>17 DEF s7

LEMMA Headed ==
  ASSUME NEW t \in Nat, NEW body \in Cells
  PROVE  /\ <<t, Len(body)>> \o body \in Cells
         /\ Len(<<t, Len(body)>> \o body) = Len(body) + 2
         /\ (<<t, Len(body)>> \o body)[1] = t
         /\ (<<t, Len(body)>> \o body)[2] = Len(body)
         /\ Len(body) \in Nat
         /\ \A b \in Cells, i \in Places :
              Has(b, i, <<t, Len(body)>> \o body)
                <=> Has(b, i, <<t, Len(body)>>) /\ Has(b, i + 2, body)
<1> DEFINE head == <<t, Len(body)>>
<1>1. Len(body) \in Nat
  BY LenProperties DEF Cells
<1>2. head \in Cells /\ Len(head) = 2 /\ head[1] = t /\ head[2] = Len(body)
  <2> DEFINE n == Len(body)
  <2>1. n \in Nat
    BY <1>1
  <2> HIDE DEF n
  <2>2. <<t, n>> \in Cells /\ Len(<<t, n>>) = 2 /\ <<t, n>>[1] = t /\ <<t, n>>[2] = n
    BY <2>1 DEF Cells
  <2>3. QED BY <2>2 DEF n
<1> HIDE DEF head
<1>3. head \o body \in Cells /\ Len(head \o body) = Len(head) + Len(body)
        /\ \A x \in 1..Len(head) : (head \o body)[x] = head[x]
  BY <1>2, Joined
<1>4. Len(head \o body) = Len(body) + 2
  BY <1>1, <1>2, <1>3
<1>5. (head \o body)[1] = t /\ (head \o body)[2] = Len(body)
  <2>1. 1 \in 1..Len(head) /\ 2 \in 1..Len(head)
    BY <1>2
  <2>2. QED BY <1>2, <1>3, <2>1
<1>6. ASSUME NEW b \in Cells, NEW i \in Places
      PROVE  Has(b, i, head \o body) <=> Has(b, i, head) /\ Has(b, i + 2, body)
  BY <1>2, HasConcat
<1>7. QED BY <1>1, <1>3, <1>4, <1>5, <1>6 DEF head

\* The three kinds of descriptors.
LEMMA Kinds ==
  ASSUME NEW d \in Descriptors
  PROVE  /\ d.tag \in Nat /\ d.rest \in Cells
         /\ d.tag # SegTag => d = [tag |-> d.tag, rest |-> d.rest]
         /\ d.tag = SegTag /\ ~d.cancel => d \in Segmentations
         /\ d.tag = SegTag /\ d.cancel =>
              d.id \in Nat /\ d = [tag |-> SegTag, id |-> d.id, cancel |-> TRUE, rest |-> d.rest]
<1>1. CASE d \in Others
  <2>1. d.tag \in Nat /\ d.tag # SegTag /\ d.rest \in Cells
          /\ d = [tag |-> d.tag, rest |-> d.rest]
    BY <1>1 DEF Others, Cells
  <2>2. QED BY <2>1, Zenon
<1>2. CASE d \in [tag : {SegTag}, id : Nat, cancel : {TRUE}, rest : Seq(Nat)]
  <2>1. /\ d.tag = SegTag /\ d.cancel = TRUE /\ d.id \in Nat /\ d.rest \in Cells
        /\ d = [tag |-> SegTag, id |-> d.id, cancel |-> TRUE, rest |-> d.rest]
    BY <1>2 DEF Cells
  <2>2. SegTag \in Nat
    BY DEF SegTag
  <2>3. QED BY <2>1, <2>2, Zenon
<1>3. CASE d \in Segmentations
  <2>1. d.tag = SegTag /\ d.cancel = FALSE /\ d.rest \in Cells
    BY <1>3, SegmentationTyped
  <2>2. SegTag \in Nat
    BY DEF SegTag
  <2>3. QED BY <1>3, <2>1, <2>2, Zenon
<1>4. QED BY <1>1, <1>2, <1>3 DEF Descriptors

LEMMA PlainForm ==
  ASSUME NEW d \in Descriptors, d.tag # SegTag
  PROVE  DescriptorCells(d) = <<d.tag, Len(d.rest)>> \o d.rest
BY DEF DescriptorCells

CancelledBody(d) == <<d.id, 128>> \o d.rest

LEMMA CancelledForm ==
  ASSUME NEW d \in Descriptors, d.tag = SegTag, d.cancel
  PROVE  /\ DescriptorCells(d) = <<SegTag, Len(CancelledBody(d))>> \o CancelledBody(d)
         /\ CancelledBody(d) \in Cells
         /\ Len(CancelledBody(d)) = 2 + Len(d.rest) /\ Len(d.rest) \in Nat
         /\ \A b \in Cells, i \in Places :
              Has(b, i, CancelledBody(d)) <=> Has(b, i, <<d.id, 128>>) /\ Has(b, i + 2, d.rest)
<1>1. d.rest \in Cells /\ d.id \in Nat
  BY Kinds
<1> DEFINE head == <<d.id, 128>>
           rest == d.rest
<1>2. head \in Cells /\ Len(head) = 2 /\ rest \in Cells
  BY <1>1 DEF Cells
<1>3. CancelledBody(d) = head \o rest
  BY DEF CancelledBody
<1>4. DescriptorCells(d) = <<SegTag, Len(CancelledBody(d))>> \o CancelledBody(d)
  BY DEF DescriptorCells, CancelledBody
<1> HIDE DEF head, rest
<1>5. head \o rest \in Cells /\ Len(head \o rest) = 2 + Len(rest) /\ Len(rest) \in Nat
  <2>1. head \o rest \in Cells /\ Len(head \o rest) = Len(head) + Len(rest) /\ Len(rest) \in Nat
    BY <1>2, Joined
  <2>2. QED BY <1>2, <2>1
<1>6. ASSUME NEW b \in Cells, NEW i \in Places
      PROVE  Has(b, i, head \o rest) <=> Has(b, i, head) /\ Has(b, i + 2, rest)
  BY <1>2, HasConcat
<1>7. QED BY <1>3, <1>4, <1>5, <1>6 DEF head, rest

LEMMA DescriptorForm ==
  ASSUME NEW d \in Descriptors
  PROVE  /\ DescriptorCells(d) \in Cells /\ Len(DescriptorCells(d)) \in Nat
         /\ Len(DescriptorCells(d)) = DescriptorCells(d)[2] + 2
         /\ DescriptorCells(d)[1] = d.tag /\ DescriptorCells(d)[2] \in Nat
<1> DEFINE c == DescriptorCells(d)
<1>1. CASE d.tag # SegTag
  <2> DEFINE rest == d.rest
             t == d.tag
  <2>1. t \in Nat /\ rest \in Cells
    BY Kinds
  <2>2. c = <<t, Len(rest)>> \o rest
    BY <1>1, PlainForm
  <2> HIDE DEF c, rest, t
  <2>3. c \in Cells /\ Len(c) = Len(rest) + 2 /\ c[1] = t /\ c[2] = Len(rest)
          /\ Len(rest) \in Nat
    BY <2>1, <2>2, Headed
  <2>4. QED BY <2>3 DEF c, t
<1>2. CASE d.tag = SegTag /\ d.cancel
  <2> DEFINE body == CancelledBody(d)
  <2>1. body \in Cells /\ c = <<SegTag, Len(body)>> \o body
    BY <1>2, CancelledForm
  <2> HIDE DEF c, body
  <2>2. c \in Cells /\ Len(c) = Len(body) + 2 /\ c[1] = SegTag /\ c[2] = Len(body)
          /\ Len(body) \in Nat
    <3>1. SegTag \in Nat
      BY DEF SegTag
    <3>2. QED BY <2>1, <3>1, Headed
  <2>3. QED BY <1>2, <2>2 DEF c
<1>3. CASE d.tag = SegTag /\ ~d.cancel
  <2>1. d \in Segmentations
    BY <1>3, Kinds
  <2>2. /\ c \in Cells /\ Len(c) = TypeAt(d) + 1 + Len(d.rest)
        /\ c[2] = TypeAt(d) - 1 + Len(d.rest)
        /\ \A b \in Cells, i \in Places : Has(b, i, c) <=> SegmentationLies(b, i, d)
    BY <2>1, SegmentationForm
  <2>3. TypeAt(d) \in Nat /\ TypeAt(d) >= 2 /\ Len(d.rest) \in Nat
    <3>1. TypeAt(d) \in Nat /\ TypeAt(d) >= UpidAt(d) + 2 /\ UpidAt(d) \in Nat /\ Len(d.rest) \in Nat
      BY <2>1, SegmentationTyped, Zenon
    <3>2. QED BY <3>1
  <2> HIDE DEF c
  <2>4. c[1] = SegTag
    <3>1. Has(c, 1, c) /\ 1 \in Places
      BY <2>2, HasWhole DEF Places
    <3>2. Has(c, 1, <<SegTag, TypeAt(d) - 1 + Len(d.rest)>>)
      BY <2>2, <3>1 DEF SegmentationLies
    <3>3. QED BY <2>2, <3>1, <3>2, HasTwo
  <2>5. QED BY <1>3, <2>2, <2>3, <2>4 DEF c
<1>4. QED BY <1>1, <1>2, <1>3

LEMMA HasAt ==
  ASSUME NEW b \in Cells, NEW i \in Places, NEW v, Has(b, i, <<v>>)
  PROVE  i \in DOMAIN b /\ b[i] = v /\ At(b, i) = v
BY HasOne DEF At

LEMMA HasAtTwo ==
  ASSUME NEW b \in Cells, NEW i \in Places, NEW v, NEW w, Has(b, i, <<v, w>>)
  PROVE  /\ i \in DOMAIN b /\ b[i] = v /\ At(b, i) = v
         /\ i + 1 \in DOMAIN b /\ b[i + 1] = w /\ At(b, i + 1) = w
<1>1. i + 1 \in DOMAIN b /\ b[i] = v /\ b[i + 1] = w
  BY HasTwo
<1>2. i \in DOMAIN b
  BY <1>1, LenProperties DEF Cells, Places
<1>3. QED BY <1>1, <1>2 DEF At

LEMMA HasAtThree ==
  ASSUME NEW b \in Cells, NEW i \in Places, NEW v, NEW w, NEW x, Has(b, i, <<v, w, x>>)
  PROVE  /\ i \in DOMAIN b /\ b[i] = v /\ At(b, i) = v
         /\ i + 1 \in DOMAIN b /\ b[i + 1] = w /\ At(b, i + 1) = w
         /\ i + 2 \in DOMAIN b /\ b[i + 2] = x /\ At(b, i + 2) = x
<1>1. i + 2 \in DOMAIN b /\ b[i] = v /\ b[i + 1] = w /\ b[i + 2] = x
  BY HasThree
<1>2. i \in DOMAIN b /\ i + 1 \in DOMAIN b
  BY <1>1, LenProperties DEF Cells, Places
<1>3. QED BY <1>1, <1>2 DEF At

\* The cells of a segmentation descriptor, one by one.
LEMMA SegmentationCells ==
  ASSUME NEW b \in Cells, NEW i \in Places, NEW d \in Segmentations, SegmentationLies(b, i, d)
  PROVE  /\ \A x \in i..(i + 4) : x \in DOMAIN b /\ At(b, x) = b[x]
         /\ b[i] = SegTag /\ b[i + 1] = TypeAt(d) - 1 + Len(d.rest) /\ b[i + 2] = d.id
         /\ b[i + 3] = 0 /\ b[i + 4] = SegFlags(d)
         /\ d.components # NoneNamed =>
              /\ At(b, i + 5) = Len(d.components[1])
              /\ Len(d.components[1]) \in Nat
              /\ Cut(b, i + 6, i + 5 + Len(d.components[1])) = d.components[1]
         /\ d.dur # NoneNamed =>
              /\ i + 5 + Len(Components(d)) \in DOMAIN b
              /\ At(b, i + 5 + Len(Components(d))) = d.dur[1]
         /\ i + UpidAt(d) \in DOMAIN b /\ i + UpidAt(d) + 1 \in DOMAIN b
         /\ At(b, i + UpidAt(d)) = d.upidType /\ At(b, i + UpidAt(d) + 1) = Len(d.upid)
         /\ Cut(b, i + UpidAt(d) + 2, i + TypeAt(d) - 1) = d.upid
         /\ i + TypeAt(d) \in DOMAIN b /\ At(b, i + TypeAt(d)) = d.typeId
         /\ Cut(b, i + TypeAt(d) + 1, i + TypeAt(d) + Len(d.rest)) = d.rest
         /\ After(b, i) = i + TypeAt(d) + 1 + Len(d.rest) /\ After(b, i) <= Len(b) + 1
<1> DEFINE n == Len(Components(d))
           u == UpidAt(d)
           t == TypeAt(d)
           r == Len(d.rest)
           m == Len(d.upid)
<1>0. d.upid \in Cells /\ d.rest \in Cells
  BY SegmentationTyped
<1>1. /\ i \in Nat /\ i >= 1 /\ n \in Nat /\ u \in Nat /\ t \in Nat /\ r \in Nat /\ m \in Nat
      /\ t = u + 2 + m
  <2>1. n \in Nat /\ u \in Nat /\ t \in Nat /\ r \in Nat /\ m \in Nat
    BY SegmentationTyped
  <2>2. t = u + 2 + m
    BY DEF TypeAt
  <2> HIDE DEF n, u, t, r, m
  <2>3. QED BY <2>1, <2>2 DEF Places
<1>2. /\ i + 2 \in Places /\ i + 5 \in Places /\ i + 5 + n \in Places /\ i + u \in Places
      /\ i + u + 2 \in Places /\ i + t \in Places /\ i + t + 1 \in Places
  <2> HIDE DEF n, u, t, r, m
  <2>1. QED BY <1>1 DEF Places
<1>3. /\ Has(b, i, <<SegTag, t - 1 + r>>) /\ Has(b, i + 2, <<d.id, 0, SegFlags(d)>>)
      /\ Has(b, i + 5, Components(d)) /\ Has(b, i + 5 + n, d.dur)
      /\ Has(b, i + u, <<d.upidType, m>>) /\ Has(b, i + u + 2, d.upid)
      /\ Has(b, i + t, <<d.typeId>>) /\ Has(b, i + t + 1, d.rest)
  BY DEF SegmentationLies
<1> HIDE DEF n, u, t, r, m
<1>4. /\ i \in DOMAIN b /\ b[i] = SegTag /\ At(b, i) = SegTag
      /\ i + 1 \in DOMAIN b /\ b[i + 1] = t - 1 + r /\ At(b, i + 1) = t - 1 + r
  BY <1>3, HasAtTwo
<1>5. /\ i + 2 \in DOMAIN b /\ b[i + 2] = d.id /\ i + 3 \in DOMAIN b /\ b[i + 3] = 0
      /\ i + 4 \in DOMAIN b /\ b[i + 4] = SegFlags(d)
  <2>1. /\ i + 2 \in DOMAIN b /\ b[i + 2] = d.id /\ i + 2 + 1 \in DOMAIN b /\ b[i + 2 + 1] = 0
        /\ i + 2 + 2 \in DOMAIN b /\ b[i + 2 + 2] = SegFlags(d)
    BY <1>2, <1>3, HasAtThree
  <2>2. i + 2 + 1 = i + 3 /\ i + 2 + 2 = i + 4
    BY <1>1
  <2>3. QED BY <2>1, <2>2
<1>6. \A x \in i..(i + 4) : x \in DOMAIN b /\ At(b, x) = b[x]
  <2>1. \A x \in i..(i + 4) : x = i \/ x = i + 1 \/ x = i + 2 \/ x = i + 3 \/ x = i + 4
    BY <1>1
  <2>2. QED BY <1>4, <1>5, <2>1 DEF At
<1>7. ASSUME d.components # NoneNamed
      PROVE  /\ At(b, i + 5) = Len(d.components[1]) /\ Len(d.components[1]) \in Nat
             /\ Cut(b, i + 6, i + 5 + Len(d.components[1])) = d.components[1]
  <2> DEFINE tags == d.components[1]
  <2>1. tags \in Cells
    BY <1>7, SegmentationTyped, Given
  <2>2. Components(d) = <<Len(tags)>> \o tags
    BY <1>7 DEF Components
  <2> HIDE DEF tags
  <2> DEFINE one == <<Len(tags)>>
  <2>3. Len(tags) \in Nat /\ one \in Cells /\ Len(one) = 1
    BY <2>1, LenProperties DEF Cells
  <2> HIDE DEF one
  <2>4. Has(b, i + 5, one) /\ Has(b, i + 5 + 1, tags)
    <3>1. Has(b, i + 5, one \o tags)
      BY <1>3, <2>2 DEF one
    <3>2. QED BY <1>2, <2>1, <2>3, <3>1, HasConcat
  <2>5. i + 5 + 1 = i + 6 /\ i + 6 \in Places
    BY <1>1 DEF Places
  <2>6. At(b, i + 5) = Len(tags)
    BY <1>2, <2>4, HasAt DEF one
  <2>7. Cut(b, i + 6, i + 6 + Len(tags) - 1) = tags
    BY <2>1, <2>4, <2>5, HasCut
  <2>8. i + 6 + Len(tags) - 1 = i + 5 + Len(tags)
    <3> DEFINE k == Len(tags)
    <3> HIDE DEF k
    <3>1. k \in Nat
      BY <2>3 DEF k
    <3>2. i + 6 + k - 1 = i + 5 + k
      BY <1>1, <3>1
    <3>3. QED BY <3>2 DEF k
  <2>9. QED BY <2>3, <2>6, <2>7, <2>8 DEF tags
<1>8. ASSUME d.dur # NoneNamed
      PROVE  i + 5 + n \in DOMAIN b /\ At(b, i + 5 + n) = d.dur[1]
  <2>1. d.dur = <<d.dur[1]>>
    BY <1>8, SegmentationTyped, Given
  <2>2. QED BY <1>2, <1>3, <2>1, HasAt
<1>9. /\ i + u \in DOMAIN b /\ i + u + 1 \in DOMAIN b
      /\ At(b, i + u) = d.upidType /\ At(b, i + u + 1) = m
  BY <1>2, <1>3, HasAtTwo
<1>10. Cut(b, i + u + 2, i + t - 1) = d.upid
  <2>1. Cut(b, i + u + 2, i + u + 2 + m - 1) = d.upid
    BY <1>0, <1>2, <1>3, HasCut DEF m
  <2>2. i + u + 2 + m - 1 = i + t - 1
    BY <1>1
  <2>3. QED BY <2>1, <2>2
<1>11. i + t \in DOMAIN b /\ At(b, i + t) = d.typeId
  BY <1>2, <1>3, HasAt
<1>12. Cut(b, i + t + 1, i + t + r) = d.rest
  <2>1. Cut(b, i + t + 1, i + t + 1 + r - 1) = d.rest
    BY <1>0, <1>2, <1>3, HasCut DEF r
  <2>2. i + t + 1 + r - 1 = i + t + r
    BY <1>1
  <2>3. QED BY <2>1, <2>2
<1>13. After(b, i) = i + t + 1 + r /\ After(b, i) <= Len(b) + 1
  <2>1. After(b, i) = i + 2 + (t - 1 + r)
    BY <1>4 DEF After
  <2>2. i + t + 1 + r <= Len(b) + 1
    BY <1>3 DEF Has, r
  <2>3. i + 2 + (t - 1 + r) = i + t + 1 + r
    BY <1>1
  <2>4. QED BY <2>1, <2>2, <2>3
<1>14. QED BY <1>4, <1>5, <1>6, <1>7, <1>8, <1>9, <1>10, <1>11, <1>12, <1>13 DEF n, u, t, r, m

LEMMA SegmentationFlags ==
  ASSUME NEW d \in Segmentations
  PROVE  /\ Bit(SegFlags(d), 128) <=> d.components = NoneNamed
         /\ Bit(SegFlags(d), 64) <=> d.dur # NoneNamed
         /\ Bit(SegFlags(d), 32) <=> d.limits = NoneNamed
         /\ d.limits # NoneNamed => SegFlags(d) % 32 = d.limits[1]
         /\ (SegFlags(d) \div 64) * 64
              = Flag(d.components = NoneNamed, 128) + Flag(d.dur # NoneNamed, 64)
<1> DEFINE p == d.components = NoneNamed
           q == d.dur # NoneNamed
           l == IF d.limits = NoneNamed THEN 32 ELSE d.limits[1]
           x == Flag(p, 128)
           y == Flag(q, 64)
           n == SegFlags(d)
<1>1. p \in BOOLEAN /\ q \in BOOLEAN /\ n = x + y + l
  BY DEF SegFlags
<1>2. d.limits = NoneNamed \/ d.limits[1] \in 0..31
  BY SegmentationTyped
<1>3. l \in 0..32 /\ (l = 32 <=> d.limits = NoneNamed) /\ (d.limits # NoneNamed => l = d.limits[1])
  BY <1>2
<1> HIDE DEF p, q, l, x, y, n
<1>4. /\ (Bit(n, 128) <=> p) /\ (Bit(n, 64) <=> q) /\ (Bit(n, 32) <=> l = 32)
      /\ (l # 32 => n % 32 = l) /\ (n \div 64) * 64 = x + y
  <2>1. x \in {0, 128} /\ (p <=> x = 128)
    BY DEF x, Flag
  <2>2. y \in {0, 64} /\ (q <=> y = 64)
    BY DEF y, Flag
  <2> DEFINE e == x + y + l
  <2>3. /\ (Bit(e, 128) <=> x = 128) /\ (Bit(e, 64) <=> y = 64) /\ (Bit(e, 32) <=> l = 32)
        /\ (l # 32 => e % 32 = l) /\ (e \div 64) * 64 = x + y
    <3>1. x \in {0, 128} /\ y \in {0, 64} /\ l \in 0..32
      BY <1>3, <2>1, <2>2
    <3>2. QED BY <3>1, SegmentationBits
  <2>4. n = e
    BY <1>1
  <2> HIDE DEF e
  <2>5. QED BY <2>1, <2>2, <2>3, <2>4, Zenon
<1>5. d.limits # NoneNamed => n % 32 = d.limits[1]
  BY <1>3, <1>4
<1>6. Bit(n, 32) <=> d.limits = NoneNamed
  BY <1>3, <1>4, Zenon
<1>7. QED BY <1>4, <1>5, <1>6 DEF p, q, x, y, n

\* Where the walks over a segmentation descriptor get to.
LEMMA SegmentationWalk ==
  ASSUME NEW b \in Cells, NEW i \in Places, NEW d \in Segmentations, SegmentationLies(b, i, d)
  PROVE  /\ (IF Bit(At(b, i + 4), 128) THEN i + 5 ELSE i + 6 + At(b, i + 5))
              = i + 5 + Len(Components(d))
         /\ (IF Bit(At(b, i + 4), 64) THEN i + 5 + Len(Components(d)) + 1
             ELSE i + 5 + Len(Components(d))) = i + UpidAt(d)
         /\ i + UpidAt(d) + 2 + At(b, i + UpidAt(d) + 1) = i + TypeAt(d)
<1> DEFINE n == Len(Components(d))
           u == UpidAt(d)
           t == TypeAt(d)
           m == Len(d.upid)
           w == Len(d.dur)
<1>1. /\ i \in Nat /\ n \in Nat /\ u \in Nat /\ t \in Nat /\ m \in Nat /\ w \in Nat
      /\ t = u + 2 + m /\ u = 5 + n + w /\ w = IF d.dur = NoneNamed THEN 0 ELSE 1
  <2>1. n \in Nat /\ u \in Nat /\ t \in Nat /\ m \in Nat /\ w = IF d.dur = NoneNamed THEN 0 ELSE 1
    BY SegmentationTyped
  <2>2. t = u + 2 + m /\ u = 5 + n + w
    BY DEF TypeAt, UpidAt
  <2> HIDE DEF n, u, t, m, w
  <2>3. QED BY <2>1, <2>2 DEF Places
<1>2. At(b, i + 4) = SegFlags(d) /\ At(b, i + u + 1) = m
  <2>1. i + 4 \in i..(i + 4)
    BY <1>1
  <2>2. At(b, i + 4) = b[i + 4] /\ b[i + 4] = SegFlags(d) /\ At(b, i + u + 1) = m
    BY <2>1, SegmentationCells
  <2>3. QED BY <2>2
<1>3. (Bit(At(b, i + 4), 128) <=> d.components = NoneNamed)
        /\ (Bit(At(b, i + 4), 64) <=> d.dur # NoneNamed)
  BY <1>2, SegmentationFlags
<1>4. CASE d.components = NoneNamed
  <2>1. n = 0
    BY <1>4 DEF Components
  <2> HIDE DEF n, u, t, m, w
  <2>2. (IF Bit(At(b, i + 4), 128) THEN i + 5 ELSE i + 6 + At(b, i + 5)) = i + 5 + n
    BY <1>1, <1>3, <1>4, <2>1
  <2>3. (IF Bit(At(b, i + 4), 64) THEN i + 5 + n + 1 ELSE i + 5 + n) = i + u
    BY <1>1, <1>3
  <2>4. i + u + 2 + At(b, i + u + 1) = i + t
    BY <1>1, <1>2
  <2>5. QED BY <2>2, <2>3, <2>4 DEF n, u, t
<1>5. CASE d.components # NoneNamed
  <2> DEFINE tags == d.components[1]
             k == Len(tags)
  <2>1. tags \in Cells
    BY <1>5, SegmentationTyped, Given
  <2>2. At(b, i + 5) = k
    BY <1>5, SegmentationCells
  <2>3. n = 1 + k /\ k \in Nat
    <3>1. Components(d) = <<k>> \o tags
      BY <1>5 DEF Components
    <3> HIDE DEF tags
    <3>2. k \in Nat
      BY <2>1, LenProperties DEF Cells
    <3> HIDE DEF k
    <3>3. <<k>> \in Cells /\ Len(<<k>>) = 1
      BY <3>2 DEF Cells
    <3>4. Len(<<k>> \o tags) = Len(<<k>>) + Len(tags)
      BY <2>1, <3>3, Joined
    <3>5. QED BY <3>1, <3>2, <3>3, <3>4 DEF k
  <2> HIDE DEF n, u, t, m, w, tags, k
  <2>4. (IF Bit(At(b, i + 4), 128) THEN i + 5 ELSE i + 6 + At(b, i + 5)) = i + 5 + n
    <3>1. i + 6 + At(b, i + 5) = i + 5 + n
      BY <1>1, <2>2, <2>3
    <3>2. QED BY <1>3, <1>5, <3>1
  <2>5. (IF Bit(At(b, i + 4), 64) THEN i + 5 + n + 1 ELSE i + 5 + n) = i + u
    BY <1>1, <1>3
  <2>6. i + u + 2 + At(b, i + u + 1) = i + t
    BY <1>1, <1>2
  <2>7. QED BY <2>4, <2>5, <2>6 DEF n, u, t
<1>6. QED BY <1>4, <1>5

\* The characters of a DTMF descriptor lie within it.
LEMMA DtmfFits ==
  ASSUME NEW d \in Descriptors, d.tag = DtmfTag, d.rest # <<>>
  PROVE  Len(d.rest) >= 2 /\ 2 + ((d.rest[2] \div 32) % 8) <= Len(d.rest)
<1>1. CASE d \in Others
  BY <1>1 DEF Others
<1>2. CASE d \notin Others
  <2>1. d.tag = SegTag
    BY <1>2 DEF Descriptors, Segmentations
  <2>2. QED BY <2>1 DEF SegTag, DtmfTag
<1>3. QED BY <1>1, <1>2

LEMMA PlainCells ==
  ASSUME NEW b \in Cells, NEW i \in Places, NEW d \in Descriptors, d.tag # SegTag,
         Has(b, i, DescriptorCells(d))
  PROVE  /\ At(b, i) = d.tag /\ At(b, i + 1) = Len(d.rest) /\ Len(d.rest) \in Nat
         /\ Has(b, i + 2, d.rest)
         /\ After(b, i) = i + 2 + Len(d.rest)
         /\ Len(DescriptorCells(d)) = Len(d.rest) + 2
         /\ After(b, i) = i + Len(DescriptorCells(d))
<1> DEFINE rest == d.rest
           n == Len(rest)
           t == d.tag
<1>1. t \in Nat /\ rest \in Cells
  BY Kinds
<1>2. DescriptorCells(d) = <<t, Len(rest)>> \o rest
  BY PlainForm
<1> HIDE DEF t, rest
<1> DEFINE c == DescriptorCells(d)
           m == Len(c)
<1>3. Has(b, i, <<t, n>>) /\ Has(b, i + 2, rest) /\ n \in Nat /\ m = n + 2
  <2>1. Has(b, i, c)
    OBVIOUS
  <2>2. c = <<t, Len(rest)>> \o rest
    BY <1>2
  <2> HIDE DEF c
  <2>3. QED BY <1>1, <2>1, <2>2, Headed
<1> HIDE DEF n, c, m
<1>4. At(b, i) = t /\ At(b, i + 1) = n
  BY <1>3, HasAtTwo DEF n
<1>5. i \in Nat
  BY DEF Places
<1>6. After(b, i) = i + 2 + n
  BY <1>4 DEF After
<1>7. After(b, i) = i + m
  BY <1>3, <1>5, <1>6
<1>8. QED BY <1>3, <1>4, <1>6, <1>7 DEF t, rest, n, m, c

LEMMA PlainRead ==
  ASSUME NEW b \in Cells, NEW i \in Places, NEW d \in Descriptors, d.tag # SegTag,
         Has(b, i, DescriptorCells(d))
  PROVE  ParseDescriptor(b, i) = [next |-> i + Len(DescriptorCells(d)), desc |-> d]
<1> DEFINE rest == d.rest
           n == Len(rest)
           t == d.tag
           end == After(b, i)
           m == Len(DescriptorCells(d))
<1>1. t \in Nat /\ rest \in Cells /\ d = [tag |-> t, rest |-> rest]
  BY Kinds
<1>2. At(b, i) = t /\ At(b, i + 1) = n /\ n \in Nat /\ Has(b, i + 2, rest) /\ end = i + 2 + n
        /\ end = i + m
  BY PlainCells
<1>3. i \in Nat /\ i + 2 \in Places
  BY DEF Places
<1>4. Cut(b, i + 2, end - 1) = rest
  <2> HIDE DEF rest, end
  <2>1. Cut(b, i + 2, i + 2 + n - 1) = rest
    BY <1>1, <1>2, <1>3, HasCut
  <2>2. end - 1 = i + 2 + n - 1
    BY <1>2, <1>3
  <2>3. QED BY <2>1, <2>2
<1>5. ASSUME t = DtmfTag, n # 0
      PROVE  Later(end, DtmfEnd(b, i)) = end
  <2>1. rest # <<>>
    BY <1>5
  <2> DEFINE q == (rest[2] \div 32) % 8
  <2>2. n >= 2 /\ 2 + q <= n
    BY <1>5, <2>1, DtmfFits
  <2>3. rest[2] \in Nat /\ At(b, i + 2 + 1) = rest[2]
    <3> HIDE DEF rest, t, q, end
    <3>1. 2 \in 1..Len(rest) /\ Len(rest) \in Nat
      BY <1>2, <2>2
    <3>2. rest[2] \in Nat
      BY <1>1, <3>1 DEF Cells
    <3>3. b[i + 2 + 2 - 1] = rest[2] /\ i + 2 + Len(rest) <= Len(b) + 1 /\ Len(b) \in Nat
      BY <1>2, <3>1 DEF Has, Cells
    <3>4. i + 2 + 2 - 1 = i + 2 + 1 /\ i + 2 + 1 \in 1..Len(b)
      BY <1>2, <1>3, <2>2, <3>3
    <3>5. QED BY <3>2, <3>3, <3>4, LenProperties DEF At, Cells
  <2>4. i + 2 + 1 = i + 3
    BY <1>3
  <2>5. DtmfEnd(b, i) = i + 4 + q
    BY <2>3, <2>4 DEF DtmfEnd
  <2>6. q \in Nat
    <3> HIDE DEF rest
    <3>1. QED BY <2>3
  <2> HIDE DEF q, rest, end, n
  <2>7. ~(end < DtmfEnd(b, i))
    BY <1>2, <1>3, <2>2, <2>5, <2>6
  <2>8. QED BY <2>7 DEF Later
<1> HIDE DEF rest, n, t, end, m
<1>6. ParseDescriptor(b, i) =
        [next |-> IF t = DtmfTag /\ n # 0 THEN Later(end, DtmfEnd(b, i)) ELSE end,
         desc |-> [tag |-> t, rest |-> rest]]
  <2>1. At(b, i) # SegTag
    BY <1>2 DEF t
  <2>2. QED BY <1>2, <1>4, <2>1 DEF ParseDescriptor, end
<1>7. ParseDescriptor(b, i) = [next |-> end, desc |-> [tag |-> t, rest |-> rest]]
  BY <1>5, <1>6, Zenon
<1>8. QED BY <1>1, <1>2, <1>7 DEF m

LEMMA CancelledCells ==
  ASSUME NEW b \in Cells, NEW i \in Places, NEW d \in Descriptors, d.tag = SegTag, d.cancel,
         Has(b, i, DescriptorCells(d))
  PROVE  /\ \A x \in i..(i + 3) : x \in DOMAIN b /\ At(b, x) = b[x]
         /\ b[i] = SegTag /\ b[i + 1] = 2 + Len(d.rest) /\ b[i + 2] = d.id /\ b[i + 3] = 128
         /\ Cut(b, i + 4, i + 3 + Len(d.rest)) = d.rest
         /\ Len(d.rest) \in Nat
         /\ After(b, i) = i + Len(DescriptorCells(d))
<1> DEFINE rest == d.rest
           n == Len(rest)
           body == CancelledBody(d)
           c == DescriptorCells(d)
           m == Len(c)
<1>1. rest \in Cells /\ body \in Cells /\ Len(body) = 2 + n /\ n \in Nat
        /\ c = <<SegTag, Len(body)>> \o body
  BY Kinds, CancelledForm
<1> HIDE DEF body, c
<1>2. Has(b, i, <<SegTag, Len(body)>>) /\ Has(b, i + 2, body) /\ Len(c) = Len(body) + 2
  <2>1. SegTag \in Nat
    BY DEF SegTag
  <2>2. Has(b, i, c)
    BY DEF c
  <2>3. QED BY <1>1, <2>1, <2>2, Headed
<1>3. i \in Nat /\ i >= 1 /\ i + 2 \in Places /\ i + 2 + 2 \in Places
  BY DEF Places
<1>4. Has(b, i + 2, <<d.id, 128>>) /\ Has(b, i + 2 + 2, rest)
  BY <1>2, <1>3, CancelledForm DEF body
<1> HIDE DEF rest, n
<1>5. At(b, i) = SegTag /\ At(b, i + 1) = 2 + n /\ b[i] = SegTag /\ b[i + 1] = 2 + n
        /\ i \in DOMAIN b /\ i + 1 \in DOMAIN b
  BY <1>1, <1>2, HasAtTwo
<1>6. b[i + 2] = d.id /\ b[i + 3] = 128 /\ i + 2 \in DOMAIN b /\ i + 3 \in DOMAIN b
  <2>1. b[i + 2] = d.id /\ b[i + 2 + 1] = 128 /\ i + 2 \in DOMAIN b /\ i + 2 + 1 \in DOMAIN b
    BY <1>3, <1>4, HasAtTwo
  <2>2. i + 2 + 1 = i + 3
    BY <1>3
  <2>3. QED BY <2>1, <2>2
<1>7. \A x \in i..(i + 3) : x \in DOMAIN b /\ At(b, x) = b[x]
  <2>1. \A x \in i..(i + 3) : x = i \/ x = i + 1 \/ x = i + 2 \/ x = i + 3
    BY <1>3
  <2>2. QED BY <1>5, <1>6, <2>1 DEF At
<1>8. Cut(b, i + 4, i + 3 + n) = rest
  <2>1. Cut(b, i + 2 + 2, i + 2 + 2 + n - 1) = rest
    BY <1>1, <1>3, <1>4, HasCut DEF n
  <2>2. i + 2 + 2 = i + 4 /\ i + 2 + 2 + n - 1 = i + 3 + n
    BY <1>1, <1>3
  <2>3. QED BY <2>1, <2>2
<1>9. After(b, i) = i + m
  <2>1. After(b, i) = i + 2 + (2 + n)
    BY <1>5 DEF After
  <2>2. m = (2 + n) + 2
    BY <1>1, <1>2 DEF m
  <2> HIDE DEF m
  <2>3. QED BY <1>1, <1>3, <2>1, <2>2
<1>10. QED BY <1>1, <1>5, <1>6, <1>7, <1>8, <1>9 DEF rest, n, m, c

LEMMA CancelledRead ==
  ASSUME NEW b \in Cells, NEW i \in Places, NEW d \in Descriptors, d.tag = SegTag, d.cancel,
         Has(b, i, DescriptorCells(d))
  PROVE  ParseDescriptor(b, i) = [next |-> i + Len(DescriptorCells(d)), desc |-> d]
<1> DEFINE n == Len(d.rest)
<1>1. i \in Nat /\ i \in i..(i + 3) /\ i + 1 \in i..(i + 3) /\ i + 2 \in i..(i + 3) /\ i + 3 \in i..(i + 3)
  BY DEF Places
<1>2. /\ At(b, i) = SegTag /\ At(b, i + 1) = 2 + n /\ At(b, i + 2) = d.id /\ At(b, i + 3) = 128
      /\ n \in Nat
  <2>1. /\ \A x \in i..(i + 3) : x \in DOMAIN b /\ At(b, x) = b[x]
        /\ b[i] = SegTag /\ b[i + 1] = 2 + n /\ b[i + 2] = d.id /\ b[i + 3] = 128
        /\ n \in Nat
    BY CancelledCells
  <2> HIDE DEF n
  <2>2. QED BY <1>1, <2>1
<1>3. Bit(At(b, i + 3), 128)
  BY <1>2 DEF Bit
<1>4. After(b, i) = i + 2 + (2 + n)
  BY <1>2 DEF After
<1>5. Cut(b, i + 4, After(b, i) - 1) = d.rest
  <2>1. Cut(b, i + 4, i + 3 + n) = d.rest
    BY CancelledCells
  <2> HIDE DEF n
  <2>2. QED BY <1>1, <1>2, <1>4, <2>1
<1> HIDE DEF n
<1>10. Later(After(b, i), i + 4) = After(b, i) /\ 2 + n # 0
  BY <1>1, <1>2, <1>4 DEF Later
<1>6. ParseDescriptor(b, i) =
        [next |-> After(b, i), desc |-> [tag |-> SegTag, id |-> d.id, cancel |-> TRUE, rest |-> d.rest]]
  BY <1>2, <1>3, <1>5, <1>10 DEF ParseDescriptor
<1>7. After(b, i) = i + Len(DescriptorCells(d))
  BY CancelledCells
<1>8. d = [tag |-> SegTag, id |-> d.id, cancel |-> TRUE, rest |-> d.rest]
  BY Kinds
<1>9. QED BY <1>6, <1>7, <1>8

LEMMA SegmentationRead ==
  ASSUME NEW b \in Cells, NEW i \in Places, NEW d \in Segmentations,
         Has(b, i, DescriptorCells(d))
  PROVE  ParseDescriptor(b, i) = [next |-> i + Len(DescriptorCells(d)), desc |-> d]
<1> DEFINE n == Len(Components(d))
           u == UpidAt(d)
           t == TypeAt(d)
           r == Len(d.rest)
           end == After(b, i)
           j == IF Bit(At(b, i + 4), 128) THEN i + 5 ELSE i + 6 + At(b, i + 5)
           v == IF Bit(At(b, i + 4), 64) THEN j + 1 ELSE j
           w == v + 2 + At(b, v + 1)
<1>1. SegmentationLies(b, i, d)
  BY SegmentationForm
<1>2. /\ i \in Nat /\ n \in Nat /\ u \in Nat /\ t \in Nat /\ r \in Nat /\ r >= 2
  <2>1. n \in Nat /\ u \in Nat /\ t \in Nat /\ r \in Nat /\ r >= 2
    BY SegmentationTyped
  <2>2. QED BY <2>1 DEF Places
<1>3. j = i + 5 + n
  BY <1>1, SegmentationWalk
<1>4. v = i + u
  <2>1. (IF Bit(At(b, i + 4), 64) THEN i + 5 + n + 1 ELSE i + 5 + n) = i + u
    BY <1>1, SegmentationWalk
  <2> HIDE DEF j, n, u
  <2>2. QED BY <1>3, <2>1
<1>5. w = i + t
  <2>1. i + u + 2 + At(b, i + u + 1) = i + t
    BY <1>1, SegmentationWalk
  <2> HIDE DEF v, t, u
  <2>2. QED BY <1>4, <2>1
<1>6. end = i + t + 1 + r
  BY <1>1, SegmentationCells
<1>20. At(b, i + 1) # 0
  <2> HIDE DEF j, v, w
  <2>1. TypeAt(d) >= UpidAt(d) + 2 /\ UpidAt(d) >= 5 /\ TypeAt(d) \in Nat /\ UpidAt(d) \in Nat
    BY SegmentationTyped
  <2>2. t >= 2
    <3> HIDE DEF r, end
    <3>1. QED BY <2>1
  <2> HIDE DEF t, r, end, u, n
  <2>3. i + 2 + At(b, i + 1) = i + t + 1 + r
    BY <1>6 DEF end, After
  <2>4. QED BY <1>2, <2>2, <2>3
<1>7. /\ At(b, i) = SegTag /\ At(b, i + 2) = d.id /\ At(b, i + 3) = 0 /\ At(b, i + 4) = SegFlags(d)
  <2>1. /\ \A x \in i..(i + 4) : x \in DOMAIN b /\ At(b, x) = b[x]
        /\ b[i] = SegTag /\ b[i + 2] = d.id /\ b[i + 3] = 0 /\ b[i + 4] = SegFlags(d)
    BY <1>1, SegmentationCells
  <2>2. i \in i..(i + 4) /\ i + 2 \in i..(i + 4) /\ i + 3 \in i..(i + 4) /\ i + 4 \in i..(i + 4)
    BY <1>2
  <2>3. QED BY <2>1, <2>2
<1>8. ~Bit(At(b, i + 3), 128)
  BY <1>7 DEF Bit
<1>9. (IF Bit(At(b, i + 4), 128) THEN NoneNamed ELSE <<Cut(b, i + 6, j - 1)>>) = d.components
  <2>1. Bit(At(b, i + 4), 128) <=> d.components = NoneNamed
    BY <1>7, SegmentationFlags
  <2>2. CASE d.components = NoneNamed
    BY <2>1, <2>2
  <2>3. CASE d.components # NoneNamed
    <3> DEFINE k == Len(d.components[1])
    <3>1. At(b, i + 5) = k /\ k \in Nat /\ Cut(b, i + 6, i + 5 + k) = d.components[1]
      BY <1>1, <2>3, SegmentationCells
    <3>2. d.components = <<d.components[1]>>
      BY <2>3, SegmentationTyped, Given
    <3> HIDE DEF k
    <3>3. j - 1 = i + 5 + k
      BY <1>2, <2>1, <2>3, <3>1
    <3> HIDE DEF j
    <3>4. Cut(b, i + 6, j - 1) = d.components[1]
      BY <3>1, <3>3
    <3>5. QED BY <2>1, <2>3, <3>2, <3>4
  <2>4. QED BY <2>2, <2>3
<1>10. (IF Bit(At(b, i + 4), 64) THEN <<At(b, j)>> ELSE NoneNamed) = d.dur
  <2>1. Bit(At(b, i + 4), 64) <=> d.dur # NoneNamed
    BY <1>7, SegmentationFlags
  <2>2. d.dur # NoneNamed => At(b, i + 5 + n) = d.dur[1]
    BY <1>1, SegmentationCells
  <2>3. d.dur # NoneNamed => d.dur = <<d.dur[1]>>
    BY SegmentationTyped, Given
  <2> HIDE DEF n, j
  <2>4. QED BY <1>3, <2>1, <2>2, <2>3
<1>11. (IF Bit(At(b, i + 4), 32) THEN NoneNamed ELSE <<At(b, i + 4) % 32>>) = d.limits
  <2>1. (Bit(At(b, i + 4), 32) <=> d.limits = NoneNamed)
          /\ (d.limits # NoneNamed => At(b, i + 4) % 32 = d.limits[1])
    BY <1>7, SegmentationFlags
  <2>2. d.limits # NoneNamed => d.limits = <<d.limits[1]>>
    BY SegmentationTyped
  <2>3. QED BY <2>1, <2>2
<1> HIDE DEF n, u, t, r, end, j, v, w
<1>12. At(b, v) = d.upidType /\ Cut(b, v + 2, w - 1) = d.upid
  <2>1. At(b, i + u) = d.upidType /\ Cut(b, i + u + 2, i + t - 1) = d.upid
    BY <1>1, SegmentationCells DEF u, t
  <2>2. v + 2 = i + u + 2 /\ w - 1 = i + t - 1
    BY <1>2, <1>4, <1>5
  <2>3. QED BY <1>4, <2>1, <2>2
<1>13. At(b, w) = d.typeId /\ Cut(b, w + 1, end - 1) = d.rest
  <2>1. At(b, i + t) = d.typeId /\ Cut(b, i + t + 1, i + t + r) = d.rest
    BY <1>1, SegmentationCells DEF t, r
  <2>2. end - 1 = i + t + r /\ w + 1 = i + t + 1
    BY <1>2, <1>5, <1>6
  <2>3. QED BY <1>5, <2>1, <2>2
<1>14. Later(end, w + 3) = end
  BY <1>2, <1>5, <1>6 DEF Later
<1>15. ParseDescriptor(b, i) =
         [next |-> Later(end, w + 3),
          desc |-> [tag |-> SegTag, id |-> At(b, i + 2), cancel |-> FALSE,
                    components |-> IF Bit(At(b, i + 4), 128) THEN NoneNamed
                                   ELSE <<Cut(b, i + 6, j - 1)>>,
                    dur |-> IF Bit(At(b, i + 4), 64) THEN <<At(b, j)>> ELSE NoneNamed,
                    limits |-> IF Bit(At(b, i + 4), 32) THEN NoneNamed
                               ELSE <<At(b, i + 4) % 32>>,
                    upidType |-> At(b, v), upid |-> Cut(b, v + 2, w - 1),
                    typeId |-> At(b, w), rest |-> Cut(b, w + 1, end - 1)]]
  BY <1>7, <1>8, <1>20 DEF ParseDescriptor, end, j, v, w
<1>16. d = [tag |-> SegTag, id |-> d.id, cancel |-> FALSE, components |-> d.components,
            dur |-> d.dur, limits |-> d.limits, upidType |-> d.upidType, upid |-> d.upid,
            typeId |-> d.typeId, rest |-> d.rest]
  BY DEF Segmentations
<1>17. ParseDescriptor(b, i) = [next |-> end, desc |-> d]
  BY <1>7, <1>9, <1>10, <1>11, <1>12, <1>13, <1>14, <1>15, <1>16
<1>18. end = i + Len(DescriptorCells(d))
  <2> DEFINE m == Len(DescriptorCells(d))
  <2>1. m = t + 1 + r
    BY SegmentationForm DEF t, r
  <2> HIDE DEF m
  <2>2. end = i + m
    BY <1>2, <1>6, <2>1
  <2>3. QED BY <2>2 DEF m
<1>19. QED BY <1>17, <1>18

\* parse_segmentation_descriptor reads back every descriptor where it lies.
LEMMA DescriptorRead ==
  ASSUME NEW b \in Cells, NEW i \in Places, NEW d \in Descriptors,
         Has(b, i, DescriptorCells(d))
  PROVE  ParseDescriptor(b, i) = [next |-> i + Len(DescriptorCells(d)), desc |-> d]
<1>1. CASE d.tag # SegTag
  BY <1>1, PlainRead
<1>2. CASE d.tag = SegTag /\ d.cancel
  BY <1>2, CancelledRead
<1>3. CASE d.tag = SegTag /\ ~d.cancel
  <2>1. d \in Segmentations
    BY <1>3, Kinds
  <2>2. QED BY <2>1, SegmentationRead
<1>4. QED BY <1>1, <1>2, <1>3

\* The parser goes on, wherever it is.
LEMMA ParseNext ==
  ASSUME NEW b \in Cells, NEW i \in Nat
  PROVE  ParseDescriptor(b, i).next \in Nat /\ ParseDescriptor(b, i).next > i
<1> DEFINE x == At(b, i + 1)
           end == After(b, i)
           a == At(b, i + 5)
           j == IF Bit(At(b, i + 4), 128) THEN i + 5 ELSE i + 6 + a
           u == IF Bit(At(b, i + 4), 64) THEN j + 1 ELSE j
           y == At(b, u + 1)
           t == u + 2 + y
           p == ParseDescriptor(b, i).next
           e == DtmfEnd(b, i)
<1>1. x \in Nat /\ a \in Nat /\ y \in Nat
  BY AtIsCell DEF Cells
<1>2. end = i + 2 + x
  BY DEF After
<1>7. e \in Nat
  <2>1. At(b, i + 3) \in Nat
    BY AtIsCell DEF Cells
  <2>2. QED BY <2>1 DEF DtmfEnd
<1>8. \A z : Later(end, z) = end \/ (Later(end, z) = z /\ end < z)
  BY DEF Later
<1>3. p = end \/ p = Later(end, t + 3) \/ p = Later(end, i + 4) \/ p = Later(end, e)
  BY DEF ParseDescriptor
<1> HIDE DEF p, end, x, a, y, e
<1>4. t \in Nat
  BY <1>1
<1> HIDE DEF t
<1>5. p \in Nat /\ p > i
  <2>1. p = end \/ (p \in {t + 3, i + 4, e} /\ end < p)
    BY <1>3, <1>8
  <2>2. QED BY <1>1, <1>2, <1>4, <1>7, <2>1
<1>6. QED BY <1>5 DEF p

\* The cells of descriptors.
Parts(ds) == [k \in DOMAIN ds |-> DescriptorCells(ds[k])]

LEMMA PartsTyped ==
  ASSUME NEW ds \in Seq(Descriptors)
  PROVE  /\ Parts(ds) \in Seq(Cells) /\ Len(Parts(ds)) = Len(ds) /\ Len(ds) \in Nat
         /\ \A k \in 1..Len(ds) : /\ ds[k] \in Descriptors /\ Parts(ds)[k] = DescriptorCells(ds[k])
                                  /\ Len(Parts(ds)[k]) \in Nat /\ Len(Parts(ds)[k]) >= 2
<1>1. DOMAIN ds = 1..Len(ds) /\ Len(ds) \in Nat /\ \A k \in 1..Len(ds) : ds[k] \in Descriptors
  OBVIOUS
<1>2. \A k \in 1..Len(ds) : DescriptorCells(ds[k]) \in Cells
                              /\ Len(DescriptorCells(ds[k])) \in Nat
                              /\ Len(DescriptorCells(ds[k])) >= 2
  <2> SUFFICES ASSUME NEW k \in 1..Len(ds)
               PROVE  DescriptorCells(ds[k]) \in Cells /\ Len(DescriptorCells(ds[k])) \in Nat
                              /\ Len(DescriptorCells(ds[k])) >= 2
    OBVIOUS
  <2> DEFINE d == ds[k]
             x == DescriptorCells(d)[2]
             y == Len(DescriptorCells(d))
  <2>1. d \in Descriptors
    BY <1>1
  <2> HIDE DEF d
  <2>2. y = x + 2 /\ x \in Nat /\ DescriptorCells(d) \in Cells
    BY <2>1, DescriptorForm
  <2> HIDE DEF x, y
  <2>3. y \in Nat /\ y >= 2
    BY <2>2
  <2>4. QED BY <2>2, <2>3 DEF y, d
<1>3. Parts(ds) = [k \in 1..Len(ds) |-> DescriptorCells(ds[k])]
  BY <1>1 DEF Parts
<1>4. QED BY <1>1, <1>2, <1>3

\* ParseDescriptors reads back the descriptors of a loop.
LEMMA DescriptorsRead ==
  ASSUME NEW b \in Cells, NEW lo \in Places, NEW ds \in Seq(Descriptors),
         Has(b, lo, FlattenSeq(Parts(ds)))
  PROVE  ParseDescriptors(b, lo, lo + Len(FlattenSeq(Parts(ds)))) = ds
<1> DEFINE n == Len(ds)
           hi == lo + Len(FlattenSeq(Parts(ds)))
           top == Len(b) + 1
           from[i \in Nat] ==
             LET p == ParseDescriptor(b, i)
             IN IF i >= hi \/ p.next > top THEN <<>> ELSE <<p.desc>> \o from[p.next]
           go == {i \in Nat : i < hi /\ ~(ParseDescriptor(b, i).next > top)}
           V == {ParseDescriptor(b, i).desc : i \in Nat}
           val == [i \in Nat |-> ParseDescriptor(b, i).desc]
           next == [i \in Nat |-> ParseDescriptor(b, i).next]
<1>1. PICK at : Layout(at, lo, Parts(ds))
  BY PartsTyped, LayoutExists
<1>2. /\ at[n + 1] = hi /\ hi <= top
      /\ \A k \in 1..n : Has(b, at[k], DescriptorCells(ds[k]))
  BY <1>1, LayoutHas, PartsTyped
<1>3. /\ n \in Nat /\ hi \in Nat /\ at[1] = lo /\ \A k \in 1..(n + 1) : at[k] \in Places
      /\ \A k \in 1..n : at[k + 1] = at[k] + Len(DescriptorCells(ds[k]))
  <2>1. n \in Nat /\ Len(Parts(ds)) = n
    BY PartsTyped
  <2>2. \A k \in 1..(n + 1) : at[k] \in Places
    BY <1>1, <2>1 DEF Layout
  <2>3. at[n + 1] \in Nat
    BY <2>1, <2>2 DEF Places
  <2>4. QED BY <1>1, <1>2, <2>1, <2>2, <2>3, PartsTyped DEF Layout
<1>4. go \in SUBSET {i \in Nat : i < hi} /\ val \in [Nat -> V] /\ next \in Onward
  <2>1. next \in Onward
    BY ParseNext DEF Onward
  <2>2. QED BY <2>1
<1>5. PICK f \in [Nat -> Seq(V)] : Descent(f, go, val, next)
  <2> HIDE DEF go, val, next, V, hi
  <2>1. QED BY <1>3, <1>4, DescentExists
<1>6. f = [i \in Nat |-> LET p == ParseDescriptor(b, i)
             IN IF i >= hi \/ p.next > top THEN <<>> ELSE <<p.desc>> \o f[p.next]]
  <2>1. ASSUME NEW i \in Nat
        PROVE  f[i] = IF i >= hi \/ ParseDescriptor(b, i).next > top THEN <<>>
                      ELSE <<ParseDescriptor(b, i).desc>> \o f[ParseDescriptor(b, i).next]
    <3>1. i \in go <=> ~(i >= hi) /\ ~(ParseDescriptor(b, i).next > top)
      <4>1. i < hi <=> ~(i >= hi)
        <5> HIDE DEF hi
        <5>1. QED BY <1>3
      <4>2. QED BY <4>1
    <3>2. /\ i \notin go => f[i] = <<>>
          /\ i \in go => f[i] = <<val[i]>> \o f[next[i]]
      <4> HIDE DEF go, val, next
      <4>1. QED BY <1>5 DEF Descent
    <3>3. val[i] = ParseDescriptor(b, i).desc /\ next[i] = ParseDescriptor(b, i).next
      OBVIOUS
    <3> HIDE DEF go, val, next, hi, top
    <3>4. QED BY <3>1, <3>2, <3>3
  <2> HIDE DEF go, val, next, hi, top, V
  <2>2. QED BY <2>1
<1>7. from = [i \in Nat |-> LET p == ParseDescriptor(b, i)
             IN IF i >= hi \/ p.next > top THEN <<>> ELSE <<p.desc>> \o from[p.next]]
  BY <1>6, Zenon DEF from
<1>8. ParseDescriptors(b, lo, hi) = from[lo]
  BY DEF ParseDescriptors
<1>9. \A i \in Nat : from[i] =
             IF i >= hi \/ ParseDescriptor(b, i).next > top THEN <<>>
             ELSE <<ParseDescriptor(b, i).desc>> \o from[ParseDescriptor(b, i).next]
  <2> HIDE DEF from, hi, top
  <2>1. QED BY <1>7
<1> DEFINE g == [k \in 1..(n + 1) |-> from[at[k]]]
<1>10. g[n + 1] = <<>>
  <2>1. n + 1 \in 1..(n + 1)
    BY <1>3
  <2> HIDE DEF from, n
  <2>2. g[n + 1] = from[hi]
    BY <1>2, <2>1
  <2>3. hi >= hi
    <3> HIDE DEF hi
    <3>1. QED BY <1>3
  <2> HIDE DEF g, hi
  <2>4. QED BY <1>3, <1>9, <2>2, <2>3
<1>11. ASSUME NEW k \in 1..n PROVE g[k] = <<ds[k]>> \o g[k + 1]
  <2> DEFINE i == at[k]
             m == Len(DescriptorCells(ds[k]))
  <2>1. k \in 1..(n + 1) /\ k + 1 \in 1..(n + 1)
    BY <1>3
  <2>2. i \in Places /\ at[k + 1] = i + m /\ at[k + 1] \in Places
    BY <1>3, <2>1
  <2>3. ParseDescriptor(b, i) = [next |-> i + m, desc |-> ds[k]]
    BY <1>2, <2>2, DescriptorRead, PartsTyped
  <2>4. m \in Nat /\ m >= 2
    BY PartsTyped
  <2>5. i + m <= hi
    <3>1. k \in 1..Len(Parts(ds)) /\ n + 1 \in (k + 1)..(Len(Parts(ds)) + 1)
      BY <1>3, PartsTyped
    <3>2. at[k] + Len(Parts(ds)[k]) <= at[n + 1]
      BY <1>1, <3>1, PartsTyped, LayoutOrder
    <3>3. QED BY <1>2, <3>2, PartsTyped
  <2>6. from[at[k + 1]] = g[k + 1] /\ from[i] = g[k]
    BY <2>1
  <2> HIDE DEF from, g, hi, i, m, n, top
  <2>7. i \in Nat /\ ~(i >= hi) /\ ~(i + m > top)
    <3>1. top \in Nat
      BY LenProperties DEF top, Cells
    <3>2. QED BY <1>2, <1>3, <2>2, <2>4, <2>5, <3>1 DEF Places
  <2>8. from[i] = <<ds[k]>> \o from[i + m]
    <3>1. ParseDescriptor(b, i).next = i + m /\ ParseDescriptor(b, i).desc = ds[k]
      BY <2>3
    <3>2. from[i] = IF i >= hi \/ ParseDescriptor(b, i).next > top THEN <<>>
             ELSE <<ParseDescriptor(b, i).desc>> \o from[ParseDescriptor(b, i).next]
      BY <1>9, <2>7
    <3>3. QED BY <2>7, <3>1, <3>2
  <2>9. QED BY <2>2, <2>6, <2>8
<1>12. ds \in [1..n -> Descriptors]
  OBVIOUS
<1>13. g[1] = ds
  <2> HIDE DEF g, n
  <2>1. n \in Nat
    BY <1>3
  <2>2. Grows(g, n, Descriptors, ds)
    BY <1>10, <1>11, <1>12 DEF Grows
  <2>3. QED BY <2>1, <2>2, ListBuilt
<1>14. g[1] = from[lo]
  <2>1. 1 \in 1..(n + 1)
    BY <1>3
  <2> HIDE DEF from, n
  <2>2. QED BY <1>3, <2>1
<1>15. QED
  <2> HIDE DEF from, g, hi
  <2>1. ParseDescriptors(b, lo, hi) = ds
    BY <1>8, <1>13, <1>14
  <2>2. QED BY <2>1 DEF hi

-----------------------------------------------------------------------------
(* The cells of a command.                                                  *)

LEMMA TimeRead ==
  ASSUME NEW t \in Maybe(Nat)
  PROVE  /\ TimeCells(t) \in Cells /\ Len(TimeCells(t)) \in Nat
         /\ \A b \in Cells, i \in Places :
              Has(b, i, TimeCells(t)) =>
                TimeAt(b, i) = t /\ AfterTime(b, i) = i + Len(TimeCells(t))
<1>1. Bit(128, 128) /\ ~Bit(0, 128)
  BY DEF Bit
<1>2. CASE t = NoneNamed
  <2>1. TimeCells(t) = <<0>> /\ <<0>> \in Cells /\ Len(<<0>>) = 1
    BY <1>2 DEF TimeCells, Cells
  <2>2. ASSUME NEW b \in Cells, NEW i \in Places, Has(b, i, << 0 >>)
        PROVE  TimeAt(b, i) = t /\ AfterTime(b, i) = i + 1
    <3>1. At(b, i) = 0
      BY <2>2, HasAt
    <3>2. QED BY <1>1, <1>2, <3>1 DEF TimeAt, AfterTime
  <2>3. QED BY <2>1, <2>2
<1>3. CASE t # NoneNamed
  <2>1. t[1] \in Nat /\ t = <<t[1]>>
    BY <1>3, Given
  <2>2. TimeCells(t) = <<128, t[1]>> /\ <<128, t[1]>> \in Cells /\ Len(<<128, t[1]>>) = 2
    BY <1>3, <2>1 DEF TimeCells, Cells
  <2>3. ASSUME NEW b \in Cells, NEW i \in Places, Has(b, i, <<128, t[1]>>)
        PROVE  TimeAt(b, i) = t /\ AfterTime(b, i) = i + 2
    <3>1. At(b, i) = 128 /\ At(b, i + 1) = t[1]
      BY <2>3, HasAtTwo
    <3>2. QED BY <1>1, <2>1, <3>1 DEF TimeAt, AfterTime
  <2>4. QED BY <2>2, <2>3
<1>4. QED BY <1>2, <1>3

LEMMA InsertTyped ==
  ASSUME NEW m \in Inserts
  PROVE  /\ m.type = "insert" /\ m.event \in Nat /\ m.cancel = FALSE /\ m.out \in BOOLEAN
         /\ m.program \in BOOLEAN /\ m.imm \in BOOLEAN /\ m.tags \in Cells
         /\ m.times \in Seq(Maybe(Nat)) /\ m.auto \in Nat /\ m.dur \in Maybe(Nat)
         /\ m.ids \in Nat /\ Len(m.tags) \in Nat /\ Len(m.times) \in Nat
         /\ m.program => m.tags = <<>>
         /\ Len(m.times) = IF ~m.program THEN Len(m.tags) ELSE IF m.imm THEN 0 ELSE 1
         /\ \A k \in 1..Len(m.times) : m.times[k] \in Maybe(Nat)
                                         /\ (~m.program => m.tags[k] \in Nat)
                                         /\ (m.imm => m.times[k] = NoneNamed)
         /\ m.dur = NoneNamed => m.auto = 0
         /\ m = [type |-> "insert", event |-> m.event, cancel |-> FALSE, out |-> m.out,
                 program |-> m.program, imm |-> m.imm, tags |-> m.tags, times |-> m.times,
                 auto |-> m.auto, dur |-> m.dur, ids |-> m.ids]
<1>1. /\ m \in [type : {"insert"}, event : Nat, cancel : {FALSE}, out : BOOLEAN,
                program : BOOLEAN, imm : BOOLEAN, tags : Seq(Nat), times : Seq(Maybe(Nat)),
                auto : Nat, dur : Maybe(Nat), ids : Nat]
      /\ m.program => m.tags = <<>>
      /\ Len(m.times) = IF ~m.program THEN Len(m.tags) ELSE IF m.imm THEN 0 ELSE 1
      /\ m.imm => \A k \in DOMAIN m.times : m.times[k] = NoneNamed
      /\ m.dur = NoneNamed => m.auto = 0
  BY DEF Inserts
<1>2. /\ m.type = "insert" /\ m.event \in Nat /\ m.cancel = FALSE /\ m.out \in BOOLEAN
      /\ m.program \in BOOLEAN /\ m.imm \in BOOLEAN /\ m.tags \in Seq(Nat)
      /\ m.times \in Seq(Maybe(Nat)) /\ m.auto \in Nat /\ m.dur \in Maybe(Nat)
      /\ m.ids \in Nat
      /\ m = [type |-> "insert", event |-> m.event, cancel |-> FALSE, out |-> m.out,
              program |-> m.program, imm |-> m.imm, tags |-> m.tags, times |-> m.times,
              auto |-> m.auto, dur |-> m.dur, ids |-> m.ids]
  BY <1>1
<1> DEFINE tags == m.tags
           times == m.times
<1>3. /\ Len(tags) \in Nat /\ Len(times) \in Nat /\ DOMAIN times = 1..Len(times)
      /\ \A k \in 1..Len(times) : times[k] \in Maybe(Nat)
      /\ \A k \in 1..Len(tags) : tags[k] \in Nat
  <2>1. tags \in Seq(Nat) /\ times \in Seq(Maybe(Nat))
    BY <1>2
  <2> HIDE DEF tags, times
  <2>2. QED BY <2>1
<1>4. ~m.program => Len(times) = Len(tags)
  BY <1>1
<1>5. \A k \in 1..Len(times) : (~m.program => tags[k] \in Nat) /\ (m.imm => times[k] = NoneNamed)
  BY <1>1, <1>3, <1>4
<1>6. QED BY <1>1, <1>2, <1>3, <1>5 DEF Cells

InsertPart(m, k) ==
    (IF m.program THEN <<>> ELSE <<m.tags[k]>>)
      \o (IF m.imm THEN <<>> ELSE TimeCells(m.times[k]))

InsertTag(m) == IF m.program THEN 0 ELSE 1

LEMMA PartRead ==
  ASSUME NEW m \in Inserts, NEW k \in 1..Len(m.times)
  PROVE  /\ InsertPart(m, k) \in Cells /\ Len(InsertPart(m, k)) \in Nat
         /\ \A b \in Cells, i \in Places :
              Has(b, i, InsertPart(m, k)) =>
                /\ ~m.program => At(b, i) = m.tags[k]
                /\ ~m.imm => /\ TimeAt(b, i + InsertTag(m)) = m.times[k]
                             /\ AfterTime(b, i + InsertTag(m)) = i + Len(InsertPart(m, k))
                /\ m.imm => i + InsertTag(m) = i + Len(InsertPart(m, k))
<1> DEFINE tag == IF m.program THEN <<>> ELSE <<m.tags[k]>>
           time == IF m.imm THEN <<>> ELSE TimeCells(m.times[k])
           part == InsertPart(m, k)
           x == InsertTag(m)
           y == Len(time)
           z == Len(part)
<1>1. part = tag \o time
  BY DEF InsertPart
<1>2. tag \in Cells /\ Len(tag) = x /\ x \in Nat
  <2>1. ~m.program => m.tags[k] \in Nat
    BY InsertTyped
  <2>2. CASE m.program
    BY <2>2 DEF InsertTag, Cells
  <2>3. CASE ~m.program
    <3>1. <<m.tags[k]>> \in Cells /\ Len(<<m.tags[k]>>) = 1
      BY <2>1, <2>3 DEF Cells
    <3>2. QED BY <2>3, <3>1 DEF InsertTag
  <2>4. QED BY <2>2, <2>3
<1>3. m.times[k] \in Maybe(Nat)
  BY InsertTyped
<1>4. time \in Cells /\ y \in Nat
  <2>1. <<>> \in Cells /\ Len(<<>>) \in Nat
    BY DEF Cells
  <2>2. TimeCells(m.times[k]) \in Cells /\ Len(TimeCells(m.times[k])) \in Nat
    BY <1>3, TimeRead
  <2>3. QED BY <2>1, <2>2
<1>5. part \in Cells /\ z = x + y
  <2> HIDE DEF tag, time, part
  <2>1. QED BY <1>1, <1>2, <1>4, Joined
<1>6. ASSUME NEW b \in Cells, NEW i \in Places, Has(b, i, part)
      PROVE  /\ ~m.program => At(b, i) = m.tags[k]
             /\ ~m.imm => TimeAt(b, i + x) = m.times[k] /\ AfterTime(b, i + x) = i + z
             /\ m.imm => i + x = i + z
  <2>1. Has(b, i, tag) /\ Has(b, i + x, time)
    <3> HIDE DEF tag, time, part, x
    <3>1. QED BY <1>1, <1>2, <1>4, <1>6, HasConcat
  <2>2. ~m.program => At(b, i) = m.tags[k]
    <3>1. ~m.program => Has(b, i, <<m.tags[k]>>)
      BY <2>1
    <3>2. QED BY <3>1, HasAt
  <2>3. i \in Nat /\ i + x \in Places
    <3> HIDE DEF x
    <3>1. QED BY <1>2 DEF Places
  <2>4. ~m.imm => TimeAt(b, i + x) = m.times[k] /\ AfterTime(b, i + x) = i + z
    <3>1. ~m.imm => Has(b, i + x, TimeCells(m.times[k])) /\ y = Len(TimeCells(m.times[k]))
      BY <2>1
    <3>2. ~m.imm => TimeAt(b, i + x) = m.times[k] /\ AfterTime(b, i + x) = i + x + y
      <4> HIDE DEF x, y, part
      <4>1. QED BY <1>3, <2>3, <3>1, TimeRead
    <3>3. i + x + y = i + z
      <4> HIDE DEF x, y, z
      <4>1. QED BY <1>2, <1>4, <1>5, <2>3
    <3> HIDE DEF x, y, z
    <3>4. QED BY <3>2, <3>3
  <2>5. m.imm => i + x = i + z
    <3>1. m.imm => y = 0
      OBVIOUS
    <3> HIDE DEF x, y, z
    <3>2. QED BY <1>2, <1>5, <2>3, <3>1
  <2>6. QED BY <2>2, <2>4, <2>5
<1>7. z \in Nat
  <2> HIDE DEF x, y, z
  <2>1. QED BY <1>2, <1>4, <1>5
<1> HIDE DEF x, z, part
<1>8. QED BY <1>5, <1>6, <1>7 DEF x, z, part

PartsAt(m) == IF m.program THEN 4 ELSE 5

\* The cell behind the parts.
BreakAt(m) == PartsAt(m) + Len(FlattenSeq(InsertParts(m)))

LEMMA InsertPartsTyped ==
  ASSUME NEW m \in Inserts
  PROVE  /\ InsertParts(m) \in Seq(Cells) /\ Len(InsertParts(m)) = Len(m.times)
         /\ \A k \in 1..Len(m.times) : InsertParts(m)[k] = InsertPart(m, k)
         /\ FlattenSeq(InsertParts(m)) \in Cells /\ Len(FlattenSeq(InsertParts(m))) \in Nat
         /\ PartsAt(m) \in Nat /\ PartsAt(m) >= 4
         /\ BreakAt(m) \in Nat /\ BreakAt(m) >= 4
<1> DEFINE n == Len(m.times)
           parts == InsertParts(m)
           flat == FlattenSeq(parts)
           x == Len(flat)
<1>1. DOMAIN m.times = 1..n /\ n \in Nat
  <2>1. m.times \in Seq(Maybe(Nat))
    BY InsertTyped
  <2>2. QED BY <2>1
<1>2. parts = [k \in 1..n |-> InsertPart(m, k)]
  BY <1>1 DEF InsertParts, InsertPart
<1>3. \A k \in 1..n : InsertPart(m, k) \in Cells
  BY PartRead
<1>4. parts \in Seq(Cells) /\ Len(parts) = n /\ \A k \in 1..n : parts[k] = InsertPart(m, k)
  <2> HIDE DEF parts, n
  <2>1. QED BY <1>1, <1>2, <1>3
<1>5. flat \in Cells
  <2> HIDE DEF parts
  <2>1. QED BY <1>4, Flattened DEF Cells
<1>6. x \in Nat
  <2> HIDE DEF flat
  <2>1. QED BY <1>5, LenProperties DEF Cells
<1>7. BreakAt(m) = PartsAt(m) + x
  BY DEF BreakAt
<1> HIDE DEF x
<1>8. PartsAt(m) \in Nat /\ PartsAt(m) >= 4 /\ BreakAt(m) \in Nat /\ BreakAt(m) >= 4
  BY <1>6, <1>7 DEF PartsAt
<1>9. QED BY <1>4, <1>5, <1>6, <1>8 DEF x

LEMMA BreakTyped ==
  ASSUME NEW m \in Inserts
  PROVE  /\ BreakCells(m) \in Cells
         /\ Len(BreakCells(m)) = IF m.dur = NoneNamed THEN 0 ELSE 2
         /\ InsertFlags(m) \in Nat
         /\ Bit(InsertFlags(m), 128) <=> m.out
         /\ Bit(InsertFlags(m), 64) <=> m.program
         /\ Bit(InsertFlags(m), 32) <=> m.dur # NoneNamed
         /\ Bit(InsertFlags(m), 16) <=> m.imm
<1>1. m.auto \in Nat /\ m.dur \in Maybe(Nat) /\ m.out \in BOOLEAN /\ m.program \in BOOLEAN
        /\ m.imm \in BOOLEAN
  BY InsertTyped
<1>2. m.dur # NoneNamed => m.dur[1] \in Nat
  BY <1>1, Given
<1>3. BreakCells(m) \in Cells /\ Len(BreakCells(m)) = IF m.dur = NoneNamed THEN 0 ELSE 2
  <2>1. CASE m.dur = NoneNamed
    BY <2>1 DEF BreakCells, Cells
  <2>2. CASE m.dur # NoneNamed
    <3>1. <<m.auto, m.dur[1]>> \in Cells /\ Len(<<m.auto, m.dur[1]>>) = 2
      BY <1>1, <1>2, <2>2 DEF Cells
    <3>2. QED BY <2>2, <3>1 DEF BreakCells
  <2>3. QED BY <2>1, <2>2
<1> DEFINE p == Flag(m.out, 128)
           q == Flag(m.program, 64)
           r == Flag(m.dur # NoneNamed, 32)
           t == Flag(m.imm, 16)
<1>4. /\ p \in {0, 128} /\ q \in {0, 64} /\ r \in {0, 32} /\ t \in {0, 16}
      /\ (p = 128 <=> m.out) /\ (q = 64 <=> m.program) /\ (r = 32 <=> m.dur # NoneNamed)
      /\ (t = 16 <=> m.imm)
  BY <1>1 DEF Flag
<1>5. InsertFlags(m) = p + q + r + t
  BY DEF InsertFlags
<1> HIDE DEF p, q, r, t
<1>6. /\ p + q + r + t \in Nat
      /\ (Bit(p + q + r + t, 128) <=> p = 128) /\ (Bit(p + q + r + t, 64) <=> q = 64)
      /\ (Bit(p + q + r + t, 32) <=> r = 32) /\ (Bit(p + q + r + t, 16) <=> t = 16)
  BY <1>4, InsertBits
<1>7. QED BY <1>3, <1>4, <1>5, <1>6

InsertLies(b, m) ==
    /\ Has(b, 1, <<m.event, 0, InsertFlags(m)>>)
    /\ Has(b, 4, IF m.program THEN <<>> ELSE <<Len(m.tags)>>)
    /\ Has(b, PartsAt(m), FlattenSeq(InsertParts(m)))
    /\ Has(b, BreakAt(m), BreakCells(m))
    /\ Has(b, BreakAt(m) + Len(BreakCells(m)), <<m.ids>>)

LEMMA InsertForm ==
  ASSUME NEW m \in Inserts
  PROVE  /\ InsertCells(m) \in Cells
         /\ Len(InsertCells(m)) = BreakAt(m) + Len(BreakCells(m))
         /\ \A b \in Cells : Has(b, 1, InsertCells(m)) <=> InsertLies(b, m)
<1> DEFINE s1 == <<m.event, 0, InsertFlags(m)>>
           s2 == IF m.program THEN <<>> ELSE <<Len(m.tags)>>
           s3 == FlattenSeq(InsertParts(m))
           s4 == BreakCells(m)
           s5 == <<m.ids>>
           l2 == Len(s2)
           l3 == Len(s3)
           l4 == Len(s4)
<1>1. m.event \in Nat /\ m.ids \in Nat /\ Len(m.tags) \in Nat /\ m.cancel = FALSE
  BY InsertTyped
<1>2. s1 \in Cells /\ Len(s1) = 3
  <2>1. InsertFlags(m) \in Nat
    BY BreakTyped
  <2>2. QED BY <1>1, <2>1 DEF Cells
<1>3. s2 \in Cells /\ l2 \in Nat /\ 4 + l2 = PartsAt(m)
  <2>1. CASE m.program
    BY <2>1 DEF Cells, PartsAt
  <2>2. CASE ~m.program
    <3>1. <<Len(m.tags)>> \in Cells /\ Len(<<Len(m.tags)>>) = 1
      BY <1>1 DEF Cells
    <3>2. QED BY <2>2, <3>1 DEF PartsAt
  <2>3. QED BY <2>1, <2>2
<1>4. s3 \in Cells /\ l3 \in Nat /\ BreakAt(m) = PartsAt(m) + l3 /\ PartsAt(m) \in Nat
  BY InsertPartsTyped DEF BreakAt
<1>5. s4 \in Cells /\ l4 \in Nat
  BY BreakTyped, LenProperties DEF Cells
<1>6. s5 \in Cells /\ Len(s5) = 1
  BY <1>1 DEF Cells
<1>7. InsertCells(m) = s1 \o s2 \o s3 \o s4 \o s5
  BY <1>1 DEF InsertCells
<1> HIDE DEF s1, s2, s3, s4, s5
<1> DEFINE c2 == s1 \o s2
           c3 == c2 \o s3
           c4 == c3 \o s4
           c5 == c4 \o s5
<1>8. c2 \in Cells /\ Len(c2) = 3 + l2
  BY <1>2, <1>3, Joined
<1> HIDE DEF c2
<1>9. c3 \in Cells /\ Len(c3) = 3 + l2 + l3
  BY <1>4, <1>8, Joined
<1> HIDE DEF c3
<1>10. c4 \in Cells /\ Len(c4) = 3 + l2 + l3 + l4
  BY <1>5, <1>9, Joined
<1> HIDE DEF c4
<1>11. c5 \in Cells /\ Len(c5) = 3 + l2 + l3 + l4 + 1
  BY <1>6, <1>10, Joined
<1> HIDE DEF c5
<1>12. InsertCells(m) = c5
  BY <1>7 DEF c2, c3, c4, c5
<1> HIDE DEF l2, l3, l4
<1>13. /\ 1 + 3 = 4 /\ 1 + (3 + l2) = PartsAt(m) /\ 1 + (3 + l2 + l3) = BreakAt(m)
       /\ 1 + (3 + l2 + l3 + l4) = BreakAt(m) + l4
       /\ 3 + l2 + l3 + l4 + 1 = BreakAt(m) + l4
  BY <1>3, <1>4, <1>5
<1>14. ASSUME NEW b \in Cells PROVE Has(b, 1, c5) <=> InsertLies(b, m)
  <2>0. 1 \in Places
    BY DEF Places
  <2>1. Has(b, 1, c5) <=> Has(b, 1, c4) /\ Has(b, BreakAt(m) + l4, s5)
    BY <1>6, <1>10, <1>13, <2>0, HasConcat DEF c5
  <2>2. Has(b, 1, c4) <=> Has(b, 1, c3) /\ Has(b, BreakAt(m), s4)
    BY <1>5, <1>9, <1>13, <2>0, HasConcat DEF c4
  <2>3. Has(b, 1, c3) <=> Has(b, 1, c2) /\ Has(b, PartsAt(m), s3)
    BY <1>4, <1>8, <1>13, <2>0, HasConcat DEF c3
  <2>4. Has(b, 1, c2) <=> Has(b, 1, s1) /\ Has(b, 4, s2)
    <3>1. Has(b, 1, s1 \o s2) <=> Has(b, 1, s1) /\ Has(b, 1 + Len(s1), s2)
      BY <1>2, <1>3, <2>0, HasConcat
    <3>2. 1 + Len(s1) = 4
      BY <1>2
    <3>3. QED BY <3>1, <3>2 DEF c2
  <2>5. QED BY <2>1, <2>2, <2>3, <2>4 DEF InsertLies, s1, s2, s3, s4, s5, l4
<1>15. Len(c5) = BreakAt(m) + l4
  BY <1>11, <1>13
<1>16. QED BY <1>11, <1>12, <1>14, <1>15 DEF l4, s4

(* The walk over the components of a splice_insert: from[k] is where the    *)
(* k-th one begins, and the last of from the cell behind them.              *)
SpliceCount(b) ==
    IF Bit(At(b, 3), 64) THEN (IF ~Bit(At(b, 3), 16) THEN 1 ELSE 0) ELSE At(b, 4)

SpliceTag(b) == IF Bit(At(b, 3), 64) THEN 0 ELSE 1

SpliceOn(b, x) ==
    IF ~Bit(At(b, 3), 16) THEN AfterTime(b, x + SpliceTag(b)) ELSE x + SpliceTag(b)

Spliced(b, from) ==
    /\ from \in [1..(SpliceCount(b) + 1) -> Nat]
    /\ from[1] = IF Bit(At(b, 3), 64) THEN 4 ELSE 5
    /\ \A k \in 2..(SpliceCount(b) + 1) : from[k] = SpliceOn(b, from[k - 1])

SpliceResult(b, from) ==
    LET flags == At(b, 3)
        n == SpliceCount(b)
        end == from[n + 1]
    IN IF Bit(At(b, 2), 128)
         THEN [next |-> 3, ticks |-> 0,
               cmd |-> [type |-> "insert", event |-> At(b, 1), cancel |-> TRUE,
                        dur |-> NoneNamed]]
         ELSE [next |-> end + (IF Bit(flags, 32) THEN 2 ELSE 0) + 1,
               ticks |-> IF Bit(flags, 32) THEN end + 1 ELSE 0,
               cmd |-> [type |-> "insert", event |-> At(b, 1), cancel |-> FALSE,
                        out |-> Bit(flags, 128), program |-> Bit(flags, 64),
                        imm |-> ~~Bit(flags, 16),
                        tags |-> IF Bit(flags, 64) THEN <<>>
                                 ELSE [k \in 1..n |-> At(b, from[k])],
                        times |-> [k \in 1..n |->
                                     IF ~Bit(flags, 16) THEN TimeAt(b, from[k] + SpliceTag(b))
                                     ELSE NoneNamed],
                        auto |-> IF Bit(flags, 32) THEN At(b, end) ELSE 0,
                        dur |-> IF Bit(flags, 32) THEN <<At(b, end + 1)>> ELSE NoneNamed,
                        ids |-> At(b, end + (IF Bit(flags, 32) THEN 2 ELSE 0))]]

LEMMA SpliceWalk ==
  ASSUME NEW b \in Cells
  PROVE  \E from : Spliced(b, from) /\ SpliceInsert(b) = SpliceResult(b, from)
<1> DEFINE flags == At(b, 3)
           program == Bit(flags, 64)
           timed == ~Bit(flags, 16)
           n == IF program THEN (IF timed THEN 1 ELSE 0) ELSE At(b, 4)
           tag == IF program THEN 0 ELSE 1
           from[k \in 1..(n + 1)] ==
             IF k = 1 THEN IF program THEN 4 ELSE 5
             ELSE IF timed THEN AfterTime(b, from[k - 1] + tag)
             ELSE from[k - 1] + tag
           end == from[n + 1]
           breaks == Bit(flags, 32)
<1>1. SpliceInsert(b) = SpliceResult(b, from)
  <2>1. n = SpliceCount(b) /\ tag = SpliceTag(b)
    BY DEF SpliceCount, SpliceTag
  <2>2. QED BY <2>1, Zenon DEF SpliceInsert, SpliceResult, SpliceCount, SpliceTag
<1>2. n \in Nat /\ tag \in Nat
  BY AtIsCell DEF Cells
<1>3. from = [k \in 1..(n + 1) |->
             IF k = 1 THEN IF program THEN 4 ELSE 5
             ELSE IF timed THEN AfterTime(b, from[k - 1] + tag)
             ELSE from[k - 1] + tag]
  <2> DEFINE first == IF program THEN 4 ELSE 5
             step == [k \in 1..(n + 1) |-> [x \in Nat |->
                        IF timed THEN AfterTime(b, x + tag) ELSE x + tag]]
  <2> HIDE DEF n, tag, timed, program
  <2>1. step \in [1..(n + 1) -> [Nat -> Nat]]
    <3>1. \A x \in Nat : x + tag \in Nat
      BY <1>2
    <3>2. \A x \in Nat : AfterTime(b, x + tag) \in Nat
      BY <3>1, AfterTimeIsCell DEF Cells
    <3>3. QED BY <3>1, <3>2
  <2>2. PICK f \in [1..(n + 1) -> Nat] :
          \A k \in 1..(n + 1) : (k = 1 => f[k] = first) /\ (k # 1 => f[k] = step[k][f[k - 1]])
    <3> DEFINE m == n + 1
               C == Nat
    <3>1. m \in Nat /\ first \in C
      BY <1>2
    <3>2. step \in Steps(m, C)
      BY <2>1 DEF Steps
    <3>3. \E f \in [1..m -> C] : Chain(f, m, first, step)
      <4> HIDE DEF step, first, m, C
      <4>1. QED BY <3>1, <3>2, ChainExists
    <3>4. QED BY <3>3 DEF Chain
  <2>3. f = [k \in 1..(n + 1) |->
             IF k = 1 THEN IF program THEN 4 ELSE 5
             ELSE IF timed THEN AfterTime(b, f[k - 1] + tag)
             ELSE f[k - 1] + tag]
    <3>1. \A k \in 1..(n + 1) : k # 1 => f[k - 1] \in Nat
      BY <1>2
    <3>2. QED BY <2>2, <3>1
  <2>4. QED BY <2>3, Zenon DEF from
<1>4. \A k \in 1..(n + 1) : from[k] \in Nat
  <2> HIDE DEF n, tag, timed, program, from
  <2>1. from[1] \in Nat
    BY <1>2, <1>3
  <2>2. \A k \in 2..(n + 1) : from[k - 1] \in Nat => from[k] \in Nat
    <3> SUFFICES ASSUME NEW k \in 2..(n + 1), from[k - 1] \in Nat PROVE from[k] \in Nat
      OBVIOUS
    <3>1. from[k - 1] + tag \in Nat
      BY <1>2
    <3>2. AfterTime(b, from[k - 1] + tag) \in Nat
      BY <3>1, AfterTimeIsCell DEF Cells
    <3>3. k \in 1..(n + 1) /\ k # 1
      BY <1>2
    <3>4. from[k] = IF timed THEN AfterTime(b, from[k - 1] + tag) ELSE from[k - 1] + tag
      BY <1>3, <3>3
    <3>5. QED BY <3>1, <3>2, <3>4
  <2>3. n + 1 \in Nat
    BY <1>2
  <2>4. QED BY <2>1, <2>2, <2>3, ChainTyped
<1>5. /\ from \in [1..(n + 1) -> Nat] /\ from[1] = (IF program THEN 4 ELSE 5)
      /\ \A k \in 2..(n + 1) :
           from[k] = IF timed THEN AfterTime(b, from[k - 1] + tag) ELSE from[k - 1] + tag
  <2> HIDE DEF n, tag, timed, program, from
  <2>1. 1 \in 1..(n + 1) /\ \A k \in 2..(n + 1) : k \in 1..(n + 1) /\ k # 1
    BY <1>2
  <2>2. QED BY <1>3, <1>4, <2>1
<1>6. Spliced(b, from)
  <2> HIDE DEF from
  <2>1. QED BY <1>5 DEF Spliced, SpliceCount, SpliceTag, SpliceOn
<1>7. QED
  <2> HIDE DEF from
  <2>1. QED BY <1>1, <1>6

LEMMA SpliceNext ==
  ASSUME NEW b \in Cells PROVE SpliceInsert(b).next \in Nat \ {0}
<1>1. PICK from : Spliced(b, from) /\ SpliceInsert(b) = SpliceResult(b, from)
  BY SpliceWalk
<1> DEFINE end == from[SpliceCount(b) + 1]
<1>2. SpliceInsert(b).next = IF Bit(At(b, 2), 128) THEN 3
                             ELSE end + (IF Bit(At(b, 3), 32) THEN 2 ELSE 0) + 1
  BY <1>1 DEF SpliceResult
<1>3. end \in Nat
  <2>1. SpliceCount(b) \in Nat
    BY AtIsCell DEF SpliceCount, Cells
  <2>2. SpliceCount(b) + 1 \in 1..(SpliceCount(b) + 1)
    BY <2>1
  <2>3. QED BY <1>1, <2>2 DEF Spliced
<1> HIDE DEF end
<1>4. QED BY <1>2, <1>3

LEMMA InsertFlagsRead ==
  ASSUME NEW b \in Cells, NEW m \in Inserts, InsertLies(b, m)
  PROVE  /\ At(b, 1) = m.event /\ ~Bit(At(b, 2), 128)
         /\ Bit(At(b, 3), 128) <=> m.out
         /\ Bit(At(b, 3), 64) <=> m.program
         /\ Bit(At(b, 3), 32) <=> m.dur # NoneNamed
         /\ Bit(At(b, 3), 16) <=> m.imm
         /\ SpliceCount(b) = Len(m.times) /\ SpliceTag(b) = InsertTag(m)
<1>1. 1 \in Places /\ 4 \in Places /\ 1 + 1 = 2 /\ 1 + 2 = 3
  BY DEF Places
<1>2. Has(b, 1, <<m.event, 0, InsertFlags(m)>>)
        /\ Has(b, 4, IF m.program THEN <<>> ELSE <<Len(m.tags)>>)
  BY DEF InsertLies
<1>3. At(b, 1) = m.event /\ At(b, 1 + 1) = 0 /\ At(b, 1 + 2) = InsertFlags(m)
  BY <1>1, <1>2, HasAtThree
<1>4. At(b, 1) = m.event /\ At(b, 2) = 0 /\ At(b, 3) = InsertFlags(m)
  BY <1>1, <1>3
<1>5. ~Bit(0, 128)
  BY DEF Bit
<1>6. /\ Bit(At(b, 3), 128) <=> m.out
      /\ Bit(At(b, 3), 64) <=> m.program
      /\ Bit(At(b, 3), 32) <=> m.dur # NoneNamed
      /\ Bit(At(b, 3), 16) <=> m.imm
  BY <1>4, BreakTyped
<1>7. ~m.program => At(b, 4) = Len(m.tags)
  <2>1. ~m.program => Has(b, 4, <<Len(m.tags)>>)
    BY <1>2
  <2>2. QED BY <1>1, <2>1, HasAt
<1>8. Len(m.times) = IF ~m.program THEN Len(m.tags) ELSE IF m.imm THEN 0 ELSE 1
  BY InsertTyped
<1>9. SpliceCount(b) = Len(m.times) /\ SpliceTag(b) = InsertTag(m)
  BY <1>6, <1>7, <1>8 DEF SpliceCount, SpliceTag, InsertTag
<1>10. QED BY <1>4, <1>5, <1>6, <1>9

\* The walk stops at every component.
LEMMA SpliceLayout ==
  ASSUME NEW b \in Cells, NEW m \in Inserts, InsertLies(b, m),
         NEW from, Spliced(b, from)
  PROVE  /\ Layout(from, PartsAt(m), InsertParts(m))
         /\ from[Len(m.times) + 1] = BreakAt(m)
         /\ \A k \in 1..Len(m.times) : from[k] \in Places /\ Has(b, from[k], InsertPart(m, k))
<1> DEFINE n == Len(m.times)
           parts == InsertParts(m)
           tag == InsertTag(m)
<1>1. /\ n \in Nat /\ parts \in Seq(Cells) /\ Len(parts) = n /\ PartsAt(m) \in Places
      /\ \A k \in 1..n : parts[k] = InsertPart(m, k)
  <2>1. n \in Nat
    BY InsertTyped
  <2>2. PartsAt(m) \in Places
    BY DEF PartsAt, Places
  <2>3. QED BY <2>1, <2>2, InsertPartsTyped
<1>2. PICK at : Layout(at, PartsAt(m), parts)
  <2> HIDE DEF parts
  <2>1. QED BY <1>1, LayoutExists
<1>3. /\ at[n + 1] = BreakAt(m)
      /\ \A k \in 1..n : Has(b, at[k], InsertPart(m, k))
  <2>1. Has(b, PartsAt(m), FlattenSeq(parts))
    BY DEF InsertLies
  <2>2. at[n + 1] = PartsAt(m) + Len(FlattenSeq(parts))
          /\ \A k \in 1..n : Has(b, at[k], parts[k])
    <3> HIDE DEF parts
    <3>1. QED BY <1>1, <1>2, <2>1, LayoutHas
  <2>3. QED BY <1>1, <2>2 DEF BreakAt
<1>4. /\ at \in [1..(n + 1) -> Places] /\ at[1] = PartsAt(m)
      /\ \A k \in 1..n : at[k + 1] = at[k] + Len(InsertPart(m, k))
  <2> HIDE DEF parts
  <2>1. QED BY <1>1, <1>2 DEF Layout
<1>5. /\ SpliceCount(b) = n /\ SpliceTag(b) = tag
      /\ Bit(At(b, 3), 64) <=> m.program
      /\ Bit(At(b, 3), 16) <=> m.imm
  BY InsertFlagsRead
<1>6. /\ from \in [1..(n + 1) -> Nat] /\ from[1] = PartsAt(m)
      /\ \A k \in 2..(n + 1) : from[k] = IF ~m.imm THEN AfterTime(b, from[k - 1] + tag)
                                         ELSE from[k - 1] + tag
  <2> HIDE DEF n, tag
  <2>1. QED BY <1>5 DEF Spliced, PartsAt, SpliceOn
<1> HIDE DEF n, tag, parts
<1> DEFINE S == {j \in Nat : j + 1 \in 1..(n + 1) => from[j + 1] = at[j + 1]}
<1>7. 0 \in S
  BY <1>4, <1>6
<1>8. ASSUME NEW j \in S PROVE j + 1 \in S
  <2> SUFFICES ASSUME j + 2 \in 1..(n + 1) PROVE from[j + 2] = at[j + 2]
    OBVIOUS
  <2> DEFINE k == j + 1
             i == at[k]
  <2>1. k \in 1..n /\ k + 1 \in 2..(n + 1) /\ k \in 1..(n + 1) /\ k + 1 = j + 2
          /\ (k + 1) - 1 = k /\ j + 1 \in 1..(n + 1)
    BY <1>1
  <2>2. from[k] = i
    BY <2>1
  <2>3. i \in Places /\ at[k + 1] = i + Len(InsertPart(m, k)) /\ Has(b, i, InsertPart(m, k))
    <3> HIDE DEF S, k
    <3>1. QED BY <1>3, <1>4, <2>1
  <2> HIDE DEF S, k, i
  <2>4. from[k + 1] = IF ~m.imm THEN AfterTime(b, i + tag) ELSE i + tag
    BY <1>6, <2>1, <2>2
  <2>5. k \in 1..Len(m.times)
    BY <2>1 DEF n
  <2>6. from[k + 1] = at[k + 1]
    BY <2>3, <2>4, <2>5, PartRead, InsertTyped DEF tag
  <2>7. QED BY <2>1, <2>6
<1>9. S = Nat
  <2> HIDE DEF S
  <2>1. S \in SUBSET Nat
    BY DEF S
  <2>2. QED BY <1>7, <1>8, <2>1, Induction
<1>10. \A k \in 1..(n + 1) : from[k] = at[k]
  <2> SUFFICES ASSUME NEW k \in 1..(n + 1) PROVE from[k] = at[k]
    OBVIOUS
  <2>1. k - 1 \in S /\ (k - 1) + 1 = k
    <3> HIDE DEF S
    <3>1. k - 1 \in Nat /\ (k - 1) + 1 = k
      BY <1>1
    <3>2. QED BY <1>9, <3>1
  <2>2. QED BY <2>1
<1>11. from = at
  <2>1. from = [k \in 1..(n + 1) |-> from[k]]
    BY <1>6
  <2>2. at = [k \in 1..(n + 1) |-> at[k]]
    BY <1>4
  <2>3. QED BY <1>10, <2>1, <2>2
<1>12. \A k \in 1..n : k \in 1..(n + 1)
  BY <1>1
<1>13. QED BY <1>2, <1>3, <1>4, <1>11, <1>12 DEF n, parts

LEMMA InsertRead ==
  ASSUME NEW b \in Cells, NEW m \in Inserts, Has(b, 1, InsertCells(m))
  PROVE  SpliceInsert(b) = [next |-> Len(InsertCells(m)) + 1,
                            ticks |-> IF m.dur # NoneNamed THEN BreakAt(m) + 1 ELSE 0,
                            cmd |-> m]
<1>1. InsertLies(b, m)
  BY InsertForm
<1>2. PICK from : Spliced(b, from) /\ SpliceInsert(b) = SpliceResult(b, from)
  BY SpliceWalk
<1> DEFINE n == Len(m.times)
           end == BreakAt(m)
           flags == At(b, 3)
           w == IF m.dur # NoneNamed THEN 2 ELSE 0
<1>3. /\ At(b, 1) = m.event /\ ~Bit(At(b, 2), 128)
      /\ Bit(flags, 128) <=> m.out
      /\ Bit(flags, 64) <=> m.program
      /\ Bit(flags, 32) <=> m.dur # NoneNamed
      /\ Bit(flags, 16) <=> m.imm
      /\ SpliceCount(b) = n /\ SpliceTag(b) = InsertTag(m)
  BY <1>1, InsertFlagsRead
<1>4. from[n + 1] = end /\ \A k \in 1..n : from[k] \in Places /\ Has(b, from[k], InsertPart(m, k))
  BY <1>1, <1>2, SpliceLayout
<1>5. end \in Places /\ end \in Nat
  BY InsertPartsTyped DEF Places
<1>6. (IF m.program THEN <<>> ELSE [k \in 1..n |-> At(b, from[k])]) = m.tags
  <2>1. CASE m.program
    BY <2>1, InsertTyped
  <2>2. CASE ~m.program
    <3>1. \A k \in 1..n : At(b, from[k]) = m.tags[k]
      BY <1>4, <2>2, PartRead
    <3>2. m.tags \in Cells /\ Len(m.tags) = n
      BY <2>2, InsertTyped
    <3>3. m.tags = [k \in 1..n |-> m.tags[k]]
      <4> DEFINE tags == m.tags
      <4>1. tags \in Seq(Nat) /\ Len(tags) = n
        BY <3>2 DEF Cells
      <4> HIDE DEF tags, n
      <4>2. tags = [k \in 1..n |-> tags[k]]
        BY <4>1
      <4>3. QED BY <4>2 DEF tags
    <3> HIDE DEF n
    <3>4. QED BY <2>2, <3>1, <3>3
  <2>3. QED BY <2>1, <2>2
<1>7. [k \in 1..n |-> IF ~m.imm THEN TimeAt(b, from[k] + InsertTag(m)) ELSE NoneNamed] = m.times
  <2>1. \A k \in 1..n :
          (IF ~m.imm THEN TimeAt(b, from[k] + InsertTag(m)) ELSE NoneNamed) = m.times[k]
    <3> SUFFICES ASSUME NEW k \in 1..n
          PROVE (IF ~m.imm THEN TimeAt(b, from[k] + InsertTag(m)) ELSE NoneNamed) = m.times[k]
      OBVIOUS
    <3>1. CASE m.imm
      BY <3>1, InsertTyped
    <3>2. CASE ~m.imm
      BY <1>4, <3>2, PartRead
    <3>3. QED BY <3>1, <3>2
  <2>2. m.times = [k \in 1..n |-> m.times[k]]
    <3> DEFINE times == m.times
    <3>1. times \in Seq(Maybe(Nat))
      BY InsertTyped
    <3> HIDE DEF times
    <3>2. times = [k \in 1..Len(times) |-> times[k]]
      BY <3>1
    <3>3. QED BY <3>2 DEF times
  <2> HIDE DEF n
  <2>3. QED BY <2>1, <2>2
<1>8. m.dur # NoneNamed => At(b, end) = m.auto /\ At(b, end + 1) = m.dur[1]
  <2>1. m.dur # NoneNamed => Has(b, end, <<m.auto, m.dur[1]>>)
    BY <1>1 DEF InsertLies, BreakCells
  <2>2. QED BY <1>5, <2>1, HasAtTwo
<1>9. (IF m.dur # NoneNamed THEN At(b, end) ELSE 0) = m.auto
  BY <1>8, InsertTyped
<1>10. (IF m.dur # NoneNamed THEN <<At(b, end + 1)>> ELSE NoneNamed) = m.dur
  <2>1. m.dur # NoneNamed => m.dur = <<m.dur[1]>>
    BY InsertTyped, Given
  <2>2. QED BY <1>8, <2>1
<1>11. Len(BreakCells(m)) = w /\ w \in Nat
  BY BreakTyped
<1>12. At(b, end + w) = m.ids
  <2>1. Has(b, end + w, <<m.ids>>)
    BY <1>1, <1>11 DEF InsertLies
  <2>2. end + w \in Places
    BY <1>5, <1>11 DEF Places
  <2>3. QED BY <2>1, <2>2, HasAt
<1>13. end + w + 1 = Len(InsertCells(m)) + 1
  BY <1>11, InsertForm
<1> HIDE DEF n, end, flags
<1>14. SpliceResult(b, from) =
         [next |-> end + w + 1, ticks |-> IF m.dur # NoneNamed THEN end + 1 ELSE 0, cmd |-> m]
  <2> DEFINE out == Bit(flags, 128)
             program == Bit(flags, 64)
             imm == ~~Bit(flags, 16)
             tags == IF Bit(flags, 64) THEN <<>>
                     ELSE [k \in 1..SpliceCount(b) |-> At(b, from[k])]
             times == [k \in 1..SpliceCount(b) |->
                         IF ~Bit(flags, 16) THEN TimeAt(b, from[k] + SpliceTag(b))
                         ELSE NoneNamed]
             auto == IF Bit(flags, 32) THEN At(b, from[SpliceCount(b) + 1]) ELSE 0
             dur == IF Bit(flags, 32) THEN <<At(b, from[SpliceCount(b) + 1] + 1)>>
                    ELSE NoneNamed
             ids == At(b, from[SpliceCount(b) + 1] + (IF Bit(flags, 32) THEN 2 ELSE 0))
             next == from[SpliceCount(b) + 1] + (IF Bit(flags, 32) THEN 2 ELSE 0) + 1
             ticks == IF Bit(flags, 32) THEN from[SpliceCount(b) + 1] + 1 ELSE 0
  <2>1. SpliceResult(b, from) =
          [next |-> next, ticks |-> ticks,
           cmd |-> [type |-> "insert", event |-> At(b, 1), cancel |-> FALSE,
                    out |-> out, program |-> program, imm |-> imm, tags |-> tags,
                    times |-> times, auto |-> auto, dur |-> dur, ids |-> ids]]
    BY <1>3, Zenon DEF SpliceResult, flags
  <2>2. out = m.out /\ program = m.program /\ imm = m.imm
    BY <1>3, InsertTyped, ZenonT(30) DEF Bit
  <2>3. from[SpliceCount(b) + 1] = end
    BY <1>3, <1>4
  <2>4. tags = m.tags
    BY <1>3, <1>6
  <2>5. times = m.times
    BY <1>3, <1>7
  <2>6. auto = m.auto
    BY <1>3, <1>9, <2>3
  <2>7. dur = m.dur
    BY <1>3, <1>10, <2>3
  <2>8. ids = m.ids
    BY <1>3, <1>12, <2>3
  <2>9. next = end + w + 1
    BY <1>3, <2>3
  <2>10. ticks = IF m.dur # NoneNamed THEN end + 1 ELSE 0
    BY <1>3, <2>3
  <2>11. m = [type |-> "insert", event |-> m.event, cancel |-> FALSE, out |-> m.out,
              program |-> m.program, imm |-> m.imm, tags |-> m.tags, times |-> m.times,
              auto |-> m.auto, dur |-> m.dur, ids |-> m.ids]
    BY InsertTyped
  <2> HIDE DEF out, program, imm, tags, times, auto, dur, ids, next, ticks, w
  <2>12. [type |-> "insert", event |-> At(b, 1), cancel |-> FALSE,
          out |-> out, program |-> program, imm |-> imm, tags |-> tags,
          times |-> times, auto |-> auto, dur |-> dur, ids |-> ids] = m
    BY <1>3, <2>2, <2>4, <2>5, <2>6, <2>7, <2>8, <2>11, Zenon
  <2>13. QED BY <2>1, <2>9, <2>10, <2>12, Zenon
<1> HIDE DEF w
<1>15. QED BY <1>2, <1>13, <1>14 DEF end

LEMMA CommandTyped ==
  ASSUME NEW m \in Commands
  PROVE  /\ CommandCells(m) \in Cells /\ Len(CommandCells(m)) \in Nat
         /\ m.type \in {"null", "bandwidth", "signal", "insert"}
         /\ TypeOf(m) \in {0, 5, 6, 7}
         /\ m.type = "signal" => m = [type |-> "signal", time |-> m.time]
                                   /\ m.time \in Maybe(Nat)
         /\ m.type = "insert" /\ ~m.cancel => m \in Inserts
         /\ m.type = "insert" /\ m.cancel =>
              /\ m.event \in Nat
              /\ m = [type |-> "insert", event |-> m.event, cancel |-> TRUE, dur |-> NoneNamed]
         /\ m.type = "null" => m = [type |-> "null"]
         /\ m.type = "bandwidth" => m = [type |-> "bandwidth"]
<1>1. /\ m.type \in {"null", "bandwidth", "signal", "insert"}
      /\ m.type = "signal" => m = [type |-> "signal", time |-> m.time]
                                   /\ m.time \in Maybe(Nat)
      /\ m.type = "insert" /\ ~m.cancel => m \in Inserts
      /\ m.type = "insert" /\ m.cancel =>
              /\ m.event \in Nat
              /\ m = [type |-> "insert", event |-> m.event, cancel |-> TRUE, dur |-> NoneNamed]
      /\ m.type = "null" => m = [type |-> "null"]
      /\ m.type = "bandwidth" => m = [type |-> "bandwidth"]
  <2>1. CASE m \in [type : {"null", "bandwidth"}]
    BY <2>1
  <2>2. CASE m \in [type : {"signal"}, time : Maybe(Nat)]
    BY <2>2
  <2>3. CASE m \in [type : {"insert"}, event : Nat, cancel : {TRUE}, dur : {NoneNamed}]
    BY <2>3
  <2>4. CASE m \in Inserts
    <3>1. m.type = "insert" /\ m.cancel = FALSE
      BY <2>4, InsertTyped
    <3>2. QED BY <2>4, <3>1
  <2>5. QED BY <2>1, <2>2, <2>3, <2>4 DEF Commands
<1>2. CommandCells(m) \in Cells
  <2>1. CASE m.type = "signal"
    BY <1>1, <2>1, TimeRead DEF CommandCells
  <2>2. CASE m.type = "insert" /\ ~m.cancel
    BY <1>1, <2>2, InsertForm DEF CommandCells
  <2>3. CASE m.type = "insert" /\ m.cancel
    <3>1. <<m.event, 128>> \in Cells
      BY <1>1, <2>3 DEF Cells
    <3>2. QED BY <2>3, <3>1 DEF CommandCells, InsertCells
  <2>4. CASE m.type \in {"null", "bandwidth"}
    <3>1. <<>> \in Cells
      BY DEF Cells
    <3>2. QED BY <2>4, <3>1 DEF CommandCells
  <2>5. QED BY <1>1, <2>1, <2>2, <2>3, <2>4
<1>3. Len(CommandCells(m)) \in Nat
  <2> DEFINE c == CommandCells(m)
  <2>1. c \in Cells
    BY <1>2
  <2> HIDE DEF c
  <2>2. Len(c) \in Nat
    BY <2>1, LenProperties DEF Cells
  <2>3. QED BY <2>2 DEF c
<1>4. TypeOf(m) \in {0, 5, 6, 7}
  BY <1>1 DEF TypeOf
<1>5. QED BY <1>1, <1>2, <1>3, <1>4

\* parse_command_info reads every command back, and where it ends.
LEMMA CommandRead ==
  ASSUME NEW s, NEW m \in Commands, s.body \in Cells, s.type = TypeOf(m),
         Has(s.body, 1, CommandCells(m))
  PROVE  /\ ParseCommand(s).next = Len(CommandCells(m)) + 1
         /\ ParseCommand(s).cmd = m
<1> DEFINE b == s.body
<1>0. b \in Cells /\ Has(b, 1, CommandCells(m)) /\ 1 \in Places
  BY DEF Places
<1>1. CASE m.type = "signal"
  <2>1. m = [type |-> "signal", time |-> m.time] /\ m.time \in Maybe(Nat) /\ s.type = 6
          /\ CommandCells(m) = TimeCells(m.time)
    BY <1>1, CommandTyped DEF TypeOf, CommandCells
  <2>2. TimeAt(b, 1) = m.time /\ AfterTime(b, 1) = 1 + Len(CommandCells(m))
    <3> HIDE DEF b
    <3>1. QED BY <1>0, <2>1, TimeRead
  <2>3. ParseCommand(s) = [next |-> AfterTime(b, 1),
                           cmd |-> [type |-> "signal", time |-> TimeAt(b, 1)]]
    BY <2>1 DEF ParseCommand
  <2>4. 1 + Len(CommandCells(m)) = Len(CommandCells(m)) + 1
    BY CommandTyped
  <2>5. QED BY <2>1, <2>2, <2>3, <2>4
<1>2. CASE m.type = "insert" /\ ~m.cancel
  <2>1. m \in Inserts /\ s.type = 5 /\ CommandCells(m) = InsertCells(m)
    BY <1>2, CommandTyped DEF TypeOf, CommandCells
  <2>2. ParseCommand(s) = SpliceInsert(b)
    BY <2>1 DEF ParseCommand
  <2> HIDE DEF b
  <2>3. SpliceInsert(b).next = Len(InsertCells(m)) + 1 /\ SpliceInsert(b).cmd = m
    BY <1>0, <2>1, InsertRead
  <2>4. QED BY <2>1, <2>2, <2>3
<1>3. CASE m.type = "insert" /\ m.cancel
  <2>1. /\ s.type = 5 /\ CommandCells(m) = <<m.event, 128>>
        /\ m = [type |-> "insert", event |-> m.event, cancel |-> TRUE, dur |-> NoneNamed]
    BY <1>3, CommandTyped DEF TypeOf, CommandCells, InsertCells
  <2>2. ParseCommand(s) = SpliceInsert(b)
    BY <2>1 DEF ParseCommand
  <2>3. At(b, 1) = m.event /\ At(b, 2) = 128
    <3> HIDE DEF b
    <3>1. At(b, 1) = m.event /\ At(b, 1 + 1) = 128
      BY <1>0, <2>1, HasAtTwo
    <3>2. QED BY <3>1
  <2>4. PICK from : SpliceInsert(b) = SpliceResult(b, from)
    <3> HIDE DEF b
    <3>1. QED BY <1>0, SpliceWalk
  <2>5. Bit(128, 128)
    BY DEF Bit
  <2>6. SpliceResult(b, from).next = 3
          /\ SpliceResult(b, from).cmd = [type |-> "insert", event |-> At(b, 1), cancel |-> TRUE,
                                          dur |-> NoneNamed]
    BY <2>3, <2>5 DEF SpliceResult
  <2>7. Len(<<m.event, 128>>) + 1 = 3
    OBVIOUS
  <2>8. QED BY <2>1, <2>2, <2>3, <2>4, <2>6, <2>7
<1>4. CASE m.type \in {"null", "bandwidth"}
  <2>1. CommandCells(m) = <<>> /\ Len(<<>>) + 1 = 1
    BY <1>4 DEF CommandCells
  <2>2. ParseCommand(s).next = 1 /\ ParseCommand(s).cmd = m
    BY <1>4, CommandTyped DEF ParseCommand, TypeOf
  <2>3. QED BY <2>1, <2>2
<1>5. QED BY <1>1, <1>2, <1>3, <1>4, CommandTyped

-----------------------------------------------------------------------------
(* The section of a cue.                                                    *)

WordAt(c) == Len(CommandCells(c.cmd)) + 1

LoopWord(c) == c.pad[1] * LoopMod + Len(LoopCells(c))

LoopEnd(c) == WordAt(c) + 1 + Len(LoopCells(c))

BodyOf(c) == CommandCells(c.cmd) \o (<<LoopWord(c)>> \o LoopCells(c) \o c.pad[2])

Frame(enc, type, cmdLen, body) ==
    [table |-> 252, enc |-> enc, type |-> type, body |-> body,
     secLen |-> (Fixed + Len(body)) % SectionMod, cmdLen |-> cmdLen,
     crc |-> <<enc, (Fixed + Len(body)) % SectionMod, cmdLen, type, body>>]

LEMMA SectionFrame ==
  ASSUME NEW type, NEW enc, NEW command, NEW rest
  PROVE  Section(type, enc, command, rest) = Frame(enc, type, Len(command), command \o rest)
<1> DEFINE body == command \o rest
           secLen == (Fixed + Len(body)) % SectionMod
           cmdLen == Len(command)
           s == [table |-> 252, enc |-> enc, type |-> type, body |-> body,
                 secLen |-> secLen, cmdLen |-> cmdLen, crc |-> <<>>]
<1>1. Section(type, enc, command, rest) = Sealed(s)
  BY DEF Section
<1>2. Frame(enc, type, Len(command), command \o rest) =
        [table |-> 252, enc |-> enc, type |-> type, body |-> body,
         secLen |-> secLen, cmdLen |-> cmdLen, crc |-> <<enc, secLen, cmdLen, type, body>>]
  BY DEF Frame
<1> HIDE DEF body, secLen, cmdLen
<1>3. Sealed(s) =
        [table |-> 252, enc |-> enc, type |-> type, body |-> body,
         secLen |-> secLen, cmdLen |-> cmdLen, crc |-> <<enc, secLen, cmdLen, type, body>>]
  BY DEF Sealed, Covered
<1>4. QED BY <1>1, <1>2, <1>3

LEMMA CueTyped ==
  ASSUME NEW c \in Cues
  PROVE  /\ c.enc \in BOOLEAN /\ c.cmd \in Commands /\ c.descs \in Seq(Descriptors)
         /\ c.pad[1] \in Nat /\ c.pad[2] \in Cells /\ c.pad = <<c.pad[1], c.pad[2]>>
         /\ c = [enc |-> c.enc, cmd |-> c.cmd, descs |-> c.descs, pad |-> c.pad]
         /\ LoopCells(c) = FlattenSeq(Parts(c.descs)) /\ LoopCells(c) \in Cells
         /\ Len(LoopCells(c)) \in Nat /\ Len(LoopCells(c)) < LoopMod
         /\ \A k \in 1..Len(c.descs) : DescriptorCells(c.descs[k])[2] < LenMod
         /\ WordAt(c) \in Nat /\ WordAt(c) >= 1 /\ LoopEnd(c) \in Nat
         /\ LoopWord(c) \in Nat /\ LoopWord(c) \div LoopMod = c.pad[1]
         /\ LoopWord(c) % LoopMod = Len(LoopCells(c))
<1>1. /\ c \in [enc : BOOLEAN, cmd : Commands, descs : Seq(Descriptors), pad : Nat \X Seq(Nat)]
      /\ \A k \in DOMAIN c.descs : DescriptorCells(c.descs[k])[2] < LenMod
      /\ Len(LoopCells(c)) < LoopMod
  BY DEF Cues
<1>2. /\ c.enc \in BOOLEAN /\ c.cmd \in Commands /\ c.descs \in Seq(Descriptors)
      /\ c.pad \in Nat \X Seq(Nat)
      /\ c = [enc |-> c.enc, cmd |-> c.cmd, descs |-> c.descs, pad |-> c.pad]
  BY <1>1
<1>3. c.pad[1] \in Nat /\ c.pad[2] \in Cells /\ c.pad = <<c.pad[1], c.pad[2]>>
  BY <1>2 DEF Cells
<1> DEFINE ds == c.descs
           loop == LoopCells(c)
           l == Len(loop)
           p == c.pad[1]
           w == Len(CommandCells(c.cmd))
<1>4. loop = FlattenSeq(Parts(ds)) /\ \A k \in 1..Len(ds) : DescriptorCells(ds[k])[2] < LenMod
  <2>1. DOMAIN ds = 1..Len(ds)
    BY <1>2
  <2>2. QED BY <1>1, <2>1 DEF LoopCells, Parts
<1>5. loop \in Cells
  <2>1. Parts(ds) \in Seq(Cells)
    BY <1>2, PartsTyped
  <2> HIDE DEF loop
  <2>2. QED BY <1>4, <2>1, Flattened DEF Cells
<1>6. l \in Nat
  <2> HIDE DEF loop
  <2>1. QED BY <1>5, LenProperties DEF Cells
<1>7. w \in Nat
  BY <1>2, CommandTyped
<1>8. LoopMod \in Nat \ {0}
  BY WidthAssumption
<1>9. WordAt(c) = w + 1 /\ LoopEnd(c) = w + 1 + 1 + l /\ LoopWord(c) = p * LoopMod + l /\ l < LoopMod
  BY <1>1 DEF WordAt, LoopEnd, LoopWord
<1> HIDE DEF l, w, p
<1>10. p \in Nat
  BY <1>3 DEF p
<1>11. /\ WordAt(c) \in Nat /\ WordAt(c) >= 1 /\ LoopEnd(c) \in Nat
       /\ LoopWord(c) \in Nat
  BY <1>6, <1>7, <1>8, <1>9, <1>10
<1>12. LoopWord(c) \div LoopMod = p /\ LoopWord(c) % LoopMod = l
  BY <1>6, <1>8, <1>9, <1>10, Split
<1>13. QED BY <1>1, <1>2, <1>3, <1>4, <1>5, <1>6, <1>11, <1>12 DEF l, p

CueLies(b, c) ==
    /\ Has(b, 1, CommandCells(c.cmd))
    /\ Has(b, WordAt(c), <<LoopWord(c)>>)
    /\ Has(b, WordAt(c) + 1, LoopCells(c))
    /\ Has(b, LoopEnd(c), c.pad[2])
    /\ Len(b) = LoopEnd(c) + Len(c.pad[2]) - 1

LEMMA BodyForm ==
  ASSUME NEW c \in Cues
  PROVE  /\ BodyOf(c) \in Cells /\ Len(BodyOf(c)) \in Nat
         /\ \A b \in Cells : b = BodyOf(c) <=> CueLies(b, c)
<1> DEFINE s1 == CommandCells(c.cmd)
           s2 == <<LoopWord(c)>>
           s3 == LoopCells(c)
           s4 == c.pad[2]
           l1 == Len(s1)
           l3 == Len(s3)
           l4 == Len(s4)
           w == WordAt(c)
           e == LoopEnd(c)
<1>1. s1 \in Cells /\ l1 \in Nat /\ w = l1 + 1
  BY CueTyped, CommandTyped DEF WordAt
<1>2. s2 \in Cells /\ Len(s2) = 1
  BY CueTyped DEF Cells
<1>3. s3 \in Cells /\ l3 \in Nat /\ e = w + 1 + l3
  BY CueTyped DEF LoopEnd
<1>4. s4 \in Cells /\ l4 \in Nat
  BY CueTyped, LenProperties DEF Cells
<1>5. BodyOf(c) = s1 \o ((s2 \o s3) \o s4)
  BY DEF BodyOf
<1> HIDE DEF s1, s2, s3, s4
<1> DEFINE c3 == s2 \o s3
           c4 == c3 \o s4
           c5 == s1 \o c4
<1>6. c3 \in Cells /\ Len(c3) = 1 + l3
  BY <1>2, <1>3, Joined
<1> HIDE DEF c3
<1>7. c4 \in Cells /\ Len(c4) = 1 + l3 + l4
  BY <1>4, <1>6, Joined
<1> HIDE DEF c4
<1>8. c5 \in Cells /\ Len(c5) = l1 + (1 + l3 + l4)
  <2>1. c5 \in Cells /\ Len(c5) = l1 + Len(c4)
    BY <1>1, <1>7, Joined
  <2> HIDE DEF c5, l1, l3, l4
  <2>2. QED BY <1>7, <2>1
<1> HIDE DEF c5
<1>9. BodyOf(c) = c5
  BY <1>5 DEF c3, c4, c5
<1> HIDE DEF l1, l3, l4, w, e
<1>10. /\ 1 + l1 = w /\ w + 1 \in Places /\ w \in Places /\ w + (1 + l3) = e
       /\ w + 1 + l3 = e /\ e + l4 - 1 = l1 + (1 + l3 + l4) /\ 1 \in Places
       /\ l1 + (1 + l3 + l4) \in Nat
  BY <1>1, <1>3, <1>4 DEF Places
<1>11. ASSUME NEW b \in Cells PROVE b = c5 <=> CueLies(b, c)
  <2>1. b = c5 <=> Has(b, 1, c5) /\ Len(b) = Len(c5)
    BY <1>8, HasWhole
  <2>2. Len(c5) = e + l4 - 1
    BY <1>8, <1>10
  <2>3. Has(b, 1, c5) <=> Has(b, 1, s1) /\ Has(b, w, c4)
    BY <1>1, <1>7, <1>10, HasConcat DEF c5, l1
  <2>4. Has(b, w, c4) <=> Has(b, w, c3) /\ Has(b, e, s4)
    BY <1>4, <1>6, <1>10, HasConcat DEF c4
  <2>5. Has(b, w, c3) <=> Has(b, w, s2) /\ Has(b, w + 1, s3)
    BY <1>2, <1>3, <1>10, HasConcat DEF c3
  <2>6. QED BY <2>1, <2>2, <2>3, <2>4, <2>5 DEF CueLies, s1, s2, s3, s4, l4, w, e
<1>12. Len(c5) \in Nat
  BY <1>8, <1>10
<1>13. QED BY <1>8, <1>9, <1>11, <1>12

\* The section of a cue is its body, framed, with every field in its range.
LEMMA EncodeForm ==
  ASSUME NEW c \in Cues
  PROVE  /\ Encode(c) = Frame(c.enc, TypeOf(c.cmd), Len(CommandCells(c.cmd)), BodyOf(c))
         /\ Encode(c).table = 252 /\ Encode(c).enc = c.enc /\ Encode(c).type = TypeOf(c.cmd)
         /\ Encode(c).body = BodyOf(c) /\ Encode(c) \in Sections
         /\ IsKnown(Encode(c).type)
<1> DEFINE body == BodyOf(c)
           cmdLen == Len(CommandCells(c.cmd))
           secLen == (Fixed + Len(body)) % SectionMod
           type == TypeOf(c.cmd)
<1>1. Encode(c) = Frame(c.enc, type, cmdLen, body)
  BY SectionFrame DEF Encode, BodyOf, LoopWord
<1>2. body \in Seq(Nat) /\ Len(body) \in Nat
  BY BodyForm DEF Cells
<1>3. cmdLen \in Nat /\ type \in Nat /\ c.enc \in BOOLEAN /\ IsKnown(type)
  BY CueTyped, CommandTyped DEF IsKnown
<1> HIDE DEF body, cmdLen, type
<1>4. secLen \in Nat
  <2> DEFINE n == Fixed + Len(body)
  <2>1. n \in Nat /\ SectionMod \in Nat \ {0}
    BY <1>2, WidthAssumption DEF Fixed
  <2> HIDE DEF n
  <2>2. n % SectionMod \in Nat
    BY <2>1
  <2>3. QED BY <2>2 DEF n
<1> HIDE DEF secLen
<1>5. Frame(c.enc, type, cmdLen, body) =
        [table |-> 252, enc |-> c.enc, type |-> type, body |-> body, secLen |-> secLen,
         cmdLen |-> cmdLen, crc |-> <<c.enc, secLen, cmdLen, type, body>>]
  BY DEF Frame, secLen
<1>6. Frame(c.enc, type, cmdLen, body) \in Sections
  BY <1>2, <1>3, <1>4, <1>5 DEF Sections
<1>7. QED BY <1>1, <1>3, <1>5, <1>6 DEF body, cmdLen, type

(* The decoder shows the cue that was encoded, for every cue whose lengths  *)
(* fit their fields: the walks of tools_api.rs find every part where the    *)
(* encoder put it.  Cues leaves out what parse_descriptor does not read as  *)
(* its length says: a DTMF descriptor whose characters run out of it, and a *)
(* segmentation descriptor too short for its event id.                      *)
THEOREM RoundTrip == ASSUME NEW c \in Cues PROVE Decode(Encode(c)) = c
<1> DEFINE s == Encode(c)
           b == s.body
           m == ParseCommand(s)
           w == WordAt(c)
           l == Len(LoopCells(c))
           word == LoopWord(c)
           hi == LoopEnd(c)
<1>1. b \in Cells /\ CueLies(b, c) /\ s.type = TypeOf(c.cmd) /\ s.enc = c.enc
  BY EncodeForm, BodyForm
<1>2. m.next = w /\ m.cmd = c.cmd
  BY <1>1, CueTyped, CommandRead DEF CueLies, WordAt
<1> HIDE DEF b, s, m
<1>3. /\ w \in Places /\ w + 1 \in Places /\ hi \in Places
      /\ hi = w + 1 + l /\ l \in Nat /\ w \in Nat
  <2>1. w \in Nat /\ w >= 1 /\ hi = w + 1 + l /\ l \in Nat
    BY CueTyped DEF LoopEnd
  <2> HIDE DEF w, l, hi
  <2>2. QED BY <2>1 DEF Places
<1>4. At(b, w) = word
  BY <1>1, <1>3, HasAt DEF CueLies
<1>5. word % LoopMod = l /\ word \div LoopMod = c.pad[1]
  BY CueTyped
<1>6. ParseDescriptors(b, w + 1, hi) = c.descs
  <2>1. c.descs \in Seq(Descriptors) /\ LoopCells(c) = FlattenSeq(Parts(c.descs))
    BY CueTyped
  <2>2. Has(b, w + 1, FlattenSeq(Parts(c.descs)))
    BY <1>1, <2>1 DEF CueLies
  <2>3. ParseDescriptors(b, w + 1, w + 1 + l) = c.descs
    BY <1>1, <1>3, <2>1, <2>2, DescriptorsRead
  <2>4. QED BY <1>3, <2>3
<1>7. Cut(b, hi, Len(b)) = c.pad[2]
  <2>1. Has(b, hi, c.pad[2]) /\ Len(b) = hi + Len(c.pad[2]) - 1
    BY <1>1 DEF CueLies
  <2>2. QED BY <1>1, <1>3, <2>1, CueTyped, HasCut, SMTT(30)
<1>8. Decode(s) = [enc |-> s.enc, cmd |-> m.cmd,
                   descs |-> ParseDescriptors(b, m.next + 1, m.next + 1 + (At(b, m.next) % LoopMod)),
                   pad |-> <<At(b, m.next) \div LoopMod,
                             Cut(b, m.next + 1 + (At(b, m.next) % LoopMod), Len(b))>>]
  BY DEF Decode, DecodeFrom, m, b
<1>9. m.next + 1 + (At(b, m.next) % LoopMod) = hi
  BY <1>2, <1>3, <1>4, <1>5
<1>10. Decode(s) = [enc |-> c.enc, cmd |-> c.cmd, descs |-> c.descs,
                    pad |-> <<c.pad[1], c.pad[2]>>]
  BY <1>1, <1>2, <1>4, <1>5, <1>6, <1>7, <1>8, <1>9
<1>11. QED BY <1>10, CueTyped DEF s

-----------------------------------------------------------------------------
(* Loops.                                                                   *)

\* The walk over the descriptors of a loop is a descent.
LEMMA StartsDescent ==
  ASSUME NEW b \in Cells, NEW L, L.hi \in Nat
  PROVE  \E f : /\ Descent(f, {i \in Nat : i + 2 <= L.hi}, [i \in Nat |-> i],
                           [i \in Nat |-> After(b, i)])
                /\ Starts(b, L) = f[L.lo]
                /\ [i \in Nat |-> After(b, i)] \in Onward
<1> DEFINE hi == L.hi
           from[i \in Nat] == IF i + 2 > L.hi THEN <<>> ELSE <<i>> \o from[After(b, i)]
           go == {i \in Nat : i + 2 <= L.hi}
           val == [i \in Nat |-> i]
           next == [i \in Nat |-> After(b, i)]
<1>1. next \in Onward
  <2>1. \A i \in Nat : At(b, i + 1) \in Nat
    BY AtIsCell DEF Cells
  <2>2. \A i \in Nat : After(b, i) \in Nat /\ After(b, i) > i
    BY <2>1 DEF After
  <2>3. QED BY <2>2 DEF Onward
<1>2. from = [i \in Nat |-> IF i + 2 > L.hi THEN <<>> ELSE <<i>> \o from[After(b, i)]]
  <2>1. PICK f \in [Nat -> Seq(Nat)] : Descent(f, go, val, next)
    <3> DEFINE V == Nat
    <3>1. go \in SUBSET {i \in Nat : i < hi} /\ val \in [Nat -> V] /\ hi \in Nat
      OBVIOUS
    <3>2. \E f \in [Nat -> Seq(V)] : Descent(f, go, val, next)
      <4> HIDE DEF go, val, next, V, hi
      <4>1. QED BY <1>1, <3>1, DescentExists
    <3>3. QED BY <3>2
  <2>2. f = [i \in Nat |-> IF i + 2 > L.hi THEN <<>> ELSE <<i>> \o f[After(b, i)]]
    <3> HIDE DEF from
    <3> SUFFICES ASSUME NEW i \in Nat
                 PROVE  f[i] = IF i + 2 > L.hi THEN <<>> ELSE <<i>> \o f[After(b, i)]
      OBVIOUS
    <3>1. next[i] = After(b, i) /\ val[i] = i /\ (i \in go <=> ~(i + 2 > L.hi))
      BY SMTT(30)
    <3>2. /\ i \notin go => f[i] = <<>>
          /\ i \in go => f[i] = <<val[i]>> \o f[next[i]]
      <4> HIDE DEF go, val, next
      <4>1. QED BY <2>1 DEF Descent
    <3> HIDE DEF go, val, next
    <3>3. QED BY <3>1, <3>2
  <2>3. QED BY <2>2, Zenon DEF from
<1>3. Starts(b, L) = from[L.lo]
  BY DEF Starts
<1>4. Descent(from, go, val, next)
  <2> HIDE DEF from
  <2> SUFFICES ASSUME NEW i \in Nat
               PROVE  /\ i \notin go => from[i] = <<>>
                      /\ i \in go => from[i] = <<val[i]>> \o from[next[i]]
    BY DEF Descent
  <2>1. from[i] = IF i + 2 > L.hi THEN <<>> ELSE <<i>> \o from[After(b, i)]
    BY <1>2
  <2>2. next[i] = After(b, i) /\ val[i] = i /\ (i \in go <=> ~(i + 2 > L.hi))
    OBVIOUS
  <2> HIDE DEF go, val, next
  <2>3. QED BY <2>1, <2>2
<1> HIDE DEF from
<1>5. QED BY <1>1, <1>3, <1>4

\* Where a descriptor may begin: at lo or behind, two cells before hi or more.
Room(lo, hi) == {i \in Nat : lo <= i /\ i + 2 <= hi}

\* A loop that was found lies in the body.
IsLoop(b, L) ==
    /\ L.word \in 1..Len(b) /\ L.lo = L.word + 1
    /\ L.hi \in L.lo..(Len(b) + 1)

LEMMA LoopFound ==
  ASSUME NEW s \in Sections, LocateLoop(s) # NoLoop
  PROVE  IsPlain(s) /\ IsLoop(s.body, LocateLoop(s))
<1> DEFINE b == s.body
           word == ParseCommand(s).next
           hi == word + 1 + (At(b, word) % LoopMod)
<1>1. b \in Cells /\ b \in Seq(Nat) /\ s.type \in Nat
  BY DEF Sections, Cells
<1>2. word \in Nat \ {0}
  <2>1. SpliceInsert(b).next \in Nat \ {0}
    <3> HIDE DEF b
    <3>1. QED BY <1>1, SpliceNext
  <2>2. AfterTime(b, 1) \in Nat \ {0}
    BY <1>1, AfterTimeIsCell
  <2>3. QED BY <1>1, <2>1, <2>2 DEF ParseCommand
<1>3. IsPlain(s) /\ LocateLoop(s) = LoopAt(b, word)
  BY DEF LocateLoop
<1>4. word <= Len(b) /\ hi <= Len(b) + 1
        /\ LocateLoop(s) = [word |-> word, lo |-> word + 1, hi |-> hi]
  <2> HIDE DEF word
  <2>1. QED BY <1>3 DEF LoopAt
<1>5. hi \in Nat /\ hi >= word + 1
  <2> HIDE DEF word
  <2>1. At(b, word) \in Nat
    BY <1>1, AtIsCell
  <2>2. At(b, word) % LoopMod \in Nat
    BY <2>1, WidthAssumption
  <2>3. QED BY <1>2, <2>2
<1>6. QED
  <2> HIDE DEF word, hi
  <2>1. Len(b) \in Nat
    BY <1>1
  <2>2. QED BY <1>2, <1>3, <1>4, <1>5, <2>1 DEF IsLoop

\* Descriptors begin in their loop.
LEMMA StartsInLoop ==
  ASSUME NEW b \in Cells, NEW L, IsLoop(b, L)
  PROVE  Starts(b, L) \in Seq(Room(L.lo, L.hi))
<1> DEFINE V == Room(L.lo, L.hi)
           lo == L.lo
           hi == L.hi
           go == {i \in Nat : i + 2 <= L.hi}
           val == [i \in Nat |-> i]
           next == [i \in Nat |-> After(b, i)]
<1>1. lo \in Nat /\ hi \in Nat
  <2>1. Len(b) \in Nat
    BY LenProperties DEF Cells
  <2>2. QED BY <2>1 DEF IsLoop
<1>2. PICK f : Descent(f, go, val, next) /\ Starts(b, L) = f[lo] /\ next \in Onward
  BY <1>1, StartsDescent
<1>3. \A i \in go : i >= lo => val[i] \in V
  BY <1>1 DEF Room
<1>4. go \in SUBSET {i \in Nat : i < hi}
  BY <1>1
<1> HIDE DEF V, lo, hi, go, val, next
<1>5. f[lo] \in Seq(V)
  BY <1>1, <1>2, <1>3, <1>4, DescentTyped
<1>6. QED BY <1>2, <1>5 DEF V

-----------------------------------------------------------------------------
(* The decoder of the rules and the event log.                              *)

\* A chain that begins at 0.
(* f is the chain from cell 0 on: its first value and n steps.              *)
Run(f, n, first, step) == f[0] = first /\ \A k \in 1..n : f[k] = step[k][f[k - 1]]

LEMMA ChainFromZero ==
  ASSUME NEW V, NEW n \in Nat, NEW first \in V, NEW step \in Steps(n, V)
  PROVE  \E f \in [0..n -> V] : Run(f, n, first, step)
<1> DEFINE later == [k \in 1..(n + 1) |-> [x \in V |-> IF k = 1 THEN x ELSE step[k - 1][x]]]
<1>1. later \in Steps(n + 1, V)
  <2>1. \A k \in 1..(n + 1) : \A x \in V : (IF k = 1 THEN x ELSE step[k - 1][x]) \in V
    <3> SUFFICES ASSUME NEW k \in 1..(n + 1), NEW x \in V, k # 1 PROVE step[k - 1][x] \in V
      OBVIOUS
    <3>1. k - 1 \in 1..n
      OBVIOUS
    <3>2. step[k - 1] \in [V -> V]
      BY <3>1 DEF Steps
    <3>3. QED BY <3>2
  <2>2. QED BY <2>1 DEF Steps
<1>2. PICK g \in [1..(n + 1) -> V] : Chain(g, n + 1, first, later)
  <2> HIDE DEF later
  <2>1. n + 1 \in Nat
    OBVIOUS
  <2>2. QED BY <1>1, <2>1, ChainExists
<1> DEFINE f == [k \in 0..n |-> g[k + 1]]
<1>3. f \in [0..n -> V]
  OBVIOUS
<1>4. f[0] = first
  <2>1. g[1] = first
    <3>1. 1 \in 1..(n + 1)
      OBVIOUS
    <3> HIDE DEF later
    <3>2. QED BY <1>2, <3>1 DEF Chain
  <2>2. QED BY <2>1
<1>5. ASSUME NEW k \in 1..n PROVE f[k] = step[k][f[k - 1]]
  <2>1. k + 1 \in 1..(n + 1) /\ k + 1 # 1 /\ (k + 1) - 1 = k /\ k \in 1..(n + 1)
    OBVIOUS
  <2>2. g[k + 1] = later[k + 1][g[k]]
    <3> HIDE DEF later
    <3>1. QED BY <1>2, <2>1 DEF Chain
  <2>3. g[k] \in V
    BY <2>1
  <2>4. later[k + 1][g[k]] = step[k][g[k]]
    BY <2>1, <2>3
  <2>5. f[k] = g[k + 1] /\ f[k - 1] = g[k]
    OBVIOUS
  <2> HIDE DEF f, later
  <2>6. QED BY <2>2, <2>4, <2>5
<1> HIDE DEF f
<1>6. QED BY <1>3, <1>4, <1>5 DEF Run

Named == [type : Nat, bytes : Cells]

Facts(command, pts) ==
    [command : {command}, typeId : Maybe(Nat), upid : Maybe(Named), pts : {pts}]

Readings(command, pts) == [next : Nat, facts : Facts(command, pts)]

LEMMA One == ASSUME NEW S, NEW x \in S PROVE <<x>> \in Maybe(S) /\ NoneNamed \in Maybe(S)
BY DEF Maybe, NoneNamed

LEMMA CutTyped == ASSUME NEW b \in Cells, NEW i \in Nat \ {0}, NEW j \in Int PROVE Cut(b, i, j) \in Cells
<1> DEFINE e == IF j > Len(b) THEN Len(b) ELSE j
<1>1. Len(b) \in Nat
  BY LenProperties DEF Cells
<1>2. e \in Int /\ e <= Len(b)
  BY <1>1
<1> HIDE DEF e
<1>3. \A k \in i..e : b[k] \in Nat
  BY <1>1, <1>2 DEF Cells
<1>4. SubSeq(b, i, e) \in Seq(Nat)
  BY <1>2, <1>3, SubSeqProperties
<1>5. QED BY <1>4 DEF Cut, Cells, e

LEMMA ReadTyped ==
  ASSUME NEW b \in Cells, NEW i \in Nat, NEW command, NEW pts, NEW facts \in Facts(command, pts)
  PROVE  ReadFacts(b, i, facts) \in Readings(command, pts)
<1> DEFINE end == After(b, i)
           j == IF Bit(At(b, i + 4), 128) THEN i + 5 ELSE i + 6 + At(b, i + 5)
           u == IF Bit(At(b, i + 4), 64) THEN j + 1 ELSE j
           t == u + 2 + At(b, u + 1)
           name == [type |-> At(b, u), bytes |-> Cut(b, u + 2, t - 1)]
           named == IF t = u + 2 THEN facts ELSE [facts EXCEPT !.upid = <<name>>]
<1>0. \A x : At(b, x) \in Nat
  BY AtIsCell DEF Cells
<1>1. end \in Nat
  BY <1>0 DEF After
<1>2. j \in Nat
  BY <1>0
<1> HIDE DEF j
<1>3. u \in Nat
  BY <1>2
<1> HIDE DEF u
<1>4. t \in Nat /\ t >= u + 2
  BY <1>0, <1>3
<1>5. name \in Named
  <2>1. u + 2 \in Nat \ {0} /\ t - 1 \in Int
    BY <1>3, <1>4
  <2> HIDE DEF t
  <2>2. Cut(b, u + 2, t - 1) \in Cells
    BY <2>1, CutTyped
  <2>3. QED BY <1>0, <2>2 DEF Named
<1>6. <<name>> \in Maybe(Named) /\ <<At(b, t)>> \in Maybe(Nat)
  BY <1>0, <1>5, One
<1> HIDE DEF name, t
<1>7. named \in Facts(command, pts) /\ [named EXCEPT !.typeId = <<At(b, t)>>] \in Facts(command, pts)
  BY <1>6 DEF Facts
<1> HIDE DEF named, end
<1>8. \/ ReadFacts(b, i, facts) = [next |-> end, facts |-> facts]
      \/ ReadFacts(b, i, facts) = [next |-> Later(end, i + 4), facts |-> facts]
      \/ ReadFacts(b, i, facts) = [next |-> end, facts |-> [named EXCEPT !.typeId = <<At(b, t)>>]]
      \/ ReadFacts(b, i, facts) = [next |-> Later(end, t), facts |-> named]
  BY ZenonT(30) DEF ReadFacts, end, named, t, u, j, name
<1>9. Later(end, i + 4) \in Nat /\ Later(end, t) \in Nat
  BY <1>1, <1>4 DEF Later
<1>10. QED BY <1>1, <1>7, <1>8, <1>9 DEF Readings

\* What a descriptor adds to what is known.
Told(d, facts) ==
    IF d.tag # SegTag \/ d.cancel THEN facts
    ELSE [facts EXCEPT
            !.typeId = <<d.typeId>>,
            !.upid = IF d.upid = <<>> THEN facts.upid
                     ELSE <<[type |-> d.upidType, bytes |-> d.upid]>>]

LEMMA FactsOfDescriptor ==
  ASSUME NEW b \in Cells, NEW i \in Places, NEW d \in Descriptors,
         Has(b, i, DescriptorCells(d)),
         NEW command, NEW pts, NEW facts \in Facts(command, pts)
  PROVE  ReadFacts(b, i, facts) = [next |-> i + Len(DescriptorCells(d)), facts |-> Told(d, facts)]
<1> DEFINE c == DescriptorCells(d)
           m == Len(c)
<1>1. CASE d.tag # SegTag \/ d.cancel
  <2>1. /\ After(b, i) = i + m
        /\ At(b, i) # SegTag \/ (Bit(At(b, i + 3), 128) /\ Later(After(b, i), i + 4) = After(b, i))
    <3>1. CASE d.tag # SegTag
      BY <3>1, PlainCells
    <3>2. CASE d.tag = SegTag /\ d.cancel
      <4>1. b[i + 3] = 128 /\ After(b, i) = i + m /\ Len(d.rest) \in Nat
              /\ b[i + 1] = 2 + Len(d.rest) /\ \A x \in i..(i + 3) : At(b, x) = b[x]
        BY <3>2, CancelledCells
      <4>2. i + 1 \in i..(i + 3) /\ i + 3 \in i..(i + 3) /\ i \in Nat
        BY DEF Places
      <4>3. Bit(128, 128)
        BY DEF Bit
      <4>4. After(b, i) = i + 2 + (2 + Len(d.rest))
        BY <4>1, <4>2 DEF After
      <4> HIDE DEF m
      <4>5. Later(After(b, i), i + 4) = After(b, i)
        <5> DEFINE z == Len(d.rest)
        <5>1. z \in Nat /\ i \in Nat
          BY <4>1, <4>2
        <5> HIDE DEF z, c
        <5>2. i + 2 + (2 + z) >= i + 4 /\ i + 2 + (2 + z) \in Nat
          BY <5>1
        <5>3. After(b, i) >= i + 4 /\ After(b, i) \in Nat
          BY <4>4, <5>2 DEF z
        <5>4. QED BY <5>1, <5>3 DEF Later
      <4>6. QED BY <4>1, <4>2, <4>3, <4>5
    <3>3. QED BY <1>1, <3>1, <3>2
  <2> HIDE DEF m
  <2>2. ReadFacts(b, i, facts) = [next |-> After(b, i), facts |-> facts]
    BY <2>1 DEF ReadFacts
  <2>3. QED BY <1>1, <2>1, <2>2 DEF Told, m
<1>2. CASE d.tag = SegTag /\ ~d.cancel
  <2> DEFINE n == Len(Components(d))
             u0 == UpidAt(d)
             t0 == TypeAt(d)
             r == Len(d.rest)
             l == Len(d.upid)
             end == After(b, i)
             j == IF Bit(At(b, i + 4), 128) THEN i + 5 ELSE i + 6 + At(b, i + 5)
             u == IF Bit(At(b, i + 4), 64) THEN j + 1 ELSE j
             t == u + 2 + At(b, u + 1)
             name == [type |-> At(b, u), bytes |-> Cut(b, u + 2, t - 1)]
             named == IF t = u + 2 THEN facts ELSE [facts EXCEPT !.upid = <<name>>]
  <2>0. d \in Segmentations
    BY <1>2, Kinds
  <2>1. SegmentationLies(b, i, d)
    BY <2>0, SegmentationForm
  <2>2. /\ i \in Nat /\ n \in Nat /\ u0 \in Nat /\ t0 \in Nat /\ r \in Nat /\ r >= 2
        /\ l \in Nat /\ t0 = u0 + 2 + l
    <3>1. n \in Nat /\ u0 \in Nat /\ t0 \in Nat /\ r \in Nat /\ r >= 2 /\ l \in Nat
      BY <2>0, SegmentationTyped
    <3>2. QED BY <3>1 DEF Places, TypeAt
  <2>3. j = i + 5 + n
    BY <2>0, <2>1, SegmentationWalk
  <2>4. u = i + u0
    <3>1. (IF Bit(At(b, i + 4), 64) THEN i + 5 + n + 1 ELSE i + 5 + n) = i + u0
      BY <2>0, <2>1, SegmentationWalk
    <3> HIDE DEF j, n, u0
    <3>2. QED BY <2>3, <3>1
  <2>5. t = i + t0
    <3>1. i + u0 + 2 + At(b, i + u0 + 1) = i + t0
      BY <2>0, <2>1, SegmentationWalk
    <3> HIDE DEF u, t0, u0
    <3>2. QED BY <2>4, <3>1
  <2>6. end = i + t0 + 1 + r /\ m = t0 + 1 + r
    <3>1. end = i + t0 + 1 + r
      BY <2>0, <2>1, SegmentationCells
    <3>2. m = t0 + 1 + r
      BY <2>0, SegmentationForm
    <3>3. QED BY <3>1, <3>2
  <2>7. At(b, i) = SegTag /\ ~Bit(At(b, i + 3), 128)
    <3>1. /\ \A x \in i..(i + 4) : x \in DOMAIN b /\ At(b, x) = b[x]
          /\ b[i] = SegTag /\ b[i + 3] = 0
      BY <2>0, <2>1, SegmentationCells
    <3>2. i \in i..(i + 4) /\ i + 3 \in i..(i + 4)
      BY <2>2
    <3>3. ~Bit(0, 128)
      BY DEF Bit
    <3>4. QED BY <3>1, <3>2, <3>3
  <2> HIDE DEF n, u0, t0, r, l, end, j, u, t, m
  <2>8. At(b, u) = d.upidType /\ Cut(b, u + 2, t - 1) = d.upid
    <3>1. At(b, i + u0) = d.upidType /\ Cut(b, i + u0 + 2, i + t0 - 1) = d.upid
      BY <2>0, <2>1, SegmentationCells DEF u0, t0
    <3>2. u + 2 = i + u0 + 2 /\ t - 1 = i + t0 - 1
      BY <2>2, <2>4, <2>5
    <3>3. QED BY <2>4, <3>1, <3>2
  <2>9. At(b, t) = d.typeId
    BY <2>0, <2>1, <2>5, SegmentationCells DEF t0
  <2>10. t = u + 2 <=> d.upid = <<>>
    <3>1. l = 0 <=> d.upid = <<>>
      <4>1. d.upid \in Seq(Nat)
        BY <2>0, SegmentationTyped DEF Cells
      <4>2. QED BY <4>1, EmptySeq DEF l
    <3>2. t = u + 2 <=> l = 0
      BY <2>2, <2>4, <2>5
    <3>3. QED BY <3>1, <3>2
  <2>11. t + 3 <= end /\ end = i + m
    BY <2>2, <2>5, <2>6
  <2>12. ReadFacts(b, i, facts) = [next |-> end, facts |-> [named EXCEPT !.typeId = <<At(b, t)>>]]
    <3> HIDE DEF named
    <3>1. ReadFacts(b, i, facts) =
            IF At(b, i) # SegTag THEN [next |-> end, facts |-> facts]
            ELSE IF Bit(At(b, i + 3), 128) THEN [next |-> Later(end, i + 4), facts |-> facts]
            ELSE IF t + 3 <= end
              THEN [next |-> end, facts |-> [named EXCEPT !.typeId = <<At(b, t)>>]]
            ELSE [next |-> Later(end, t), facts |-> named]
      BY Zenon DEF ReadFacts, end, named, t, u, j, name
    <3>2. QED BY <2>7, <2>11, <3>1, Zenon
  <2>13. named = [facts EXCEPT !.upid = IF d.upid = <<>> THEN facts.upid
                                        ELSE <<[type |-> d.upidType, bytes |-> d.upid]>>]
    BY <2>8, <2>10 DEF Facts
  <2>14. [named EXCEPT !.typeId = <<At(b, t)>>] = Told(d, facts)
    BY <1>2, <2>9, <2>13 DEF Told, Facts
  <2>15. QED BY <2>11, <2>12, <2>14 DEF m
<1>3. QED BY <1>1, <1>2

\* read are the steps of the walk over a loop.
Walks(read, b, lo, hi, command, pts, facts) ==
    /\ read \in [0..Len(b) -> Readings(command, pts)]
    /\ Walk(b, lo, hi, facts) = read[Len(b)]
    /\ read[0] = [next |-> lo, facts |-> facts]
    /\ \A k \in 1..Len(b) : read[k] = Step(b, hi, read[k - 1])

LEMMA WalkChain ==
  ASSUME NEW b \in Cells, NEW lo \in Nat, NEW hi, NEW command, NEW pts,
         NEW facts \in Facts(command, pts)
  PROVE  \E read : Walks(read, b, lo, hi, command, pts, facts)
<1> DEFINE V == Readings(command, pts)
           N == Len(b)
           first == [next |-> lo, facts |-> facts]
           step == [k \in 1..N |-> [x \in V |-> Step(b, hi, x)]]
           read[n \in 0..Len(b)] == IF n = 0 THEN first ELSE Step(b, hi, read[n - 1])
<1>1. N \in Nat
  BY LenProperties DEF Cells
<1>2. first \in V
  BY DEF Readings
<1>3. \A x \in V : Step(b, hi, x) \in V
  <2> SUFFICES ASSUME NEW x \in V PROVE Step(b, hi, x) \in V
    OBVIOUS
  <2>1. x.next \in Nat /\ x.facts \in Facts(command, pts)
    BY DEF Readings
  <2>2. ReadFacts(b, x.next, x.facts) \in V
    BY <2>1, ReadTyped
  <2> HIDE DEF V
  <2>3. QED BY <2>2 DEF Step
<1>4. step \in [1..N -> [V -> V]]
  <2> HIDE DEF V, N
  <2>1. QED BY <1>3
<1>5. PICK f \in [0..N -> V] : Run(f, N, first, step)
  <2>1. step \in Steps(N, V)
    BY <1>4 DEF Steps
  <2> HIDE DEF V, N, first, step, read
  <2>2. QED BY <1>1, <1>2, <2>1, ChainFromZero
<1>5a. f[0] = first /\ \A k \in 1..N : f[k] = step[k][f[k - 1]]
  <2> HIDE DEF V, N, first, step, read
  <2>1. QED BY <1>5 DEF Run
<1>6. \A k \in 1..N : k - 1 \in 0..N
  <2> HIDE DEF N
  <2>1. QED BY <1>1
<1>7. f = [n \in 0..Len(b) |-> IF n = 0 THEN first ELSE Step(b, hi, f[n - 1])]
  <2>1. ASSUME NEW n \in 0..N PROVE f[n] = IF n = 0 THEN first ELSE Step(b, hi, f[n - 1])
    <3>1. CASE n = 0
      BY <1>5a, <3>1
    <3>2. CASE n # 0
      <4>1. n \in 1..N
        <5> HIDE DEF N
        <5>1. QED BY <1>1, <3>2
      <4>2. f[n - 1] \in V
        BY <1>6, <4>1
      <4>3. step[n][f[n - 1]] = Step(b, hi, f[n - 1])
        <5> HIDE DEF V, N
        <5>1. QED BY <4>1, <4>2
      <4> HIDE DEF step, N, first, V
      <4>4. QED BY <1>5a, <3>2, <4>1, <4>3
    <3>3. QED BY <3>1, <3>2
  <2> HIDE DEF first, V
  <2>2. QED BY <2>1
<1>8. read = [n \in 0..Len(b) |-> IF n = 0 THEN first ELSE Step(b, hi, read[n - 1])]
  BY <1>7, Zenon DEF read
<1>9. Walk(b, lo, hi, facts) = read[Len(b)]
  BY DEF Walk
<1> HIDE DEF read, first
<1>10. read[0] = first /\ \A k \in 1..N : k # 0 /\ k \in 0..N /\ read[k] = Step(b, hi, read[k - 1])
  <2>1. 0 \in 0..N /\ \A k \in 1..N : k # 0 /\ k \in 0..N
    <3> HIDE DEF N
    <3>1. QED BY <1>1
  <2>2. QED BY <1>8, <2>1
<1>11. \A k \in 0..N : read[k] \in V
  <2> DEFINE S == {m \in Nat : m <= N => read[m] \in V}
  <2>1. 0 \in S
    BY <1>2, <1>10
  <2>2. ASSUME NEW m \in S PROVE m + 1 \in S
    <3> HIDE DEF V, N
    <3> SUFFICES ASSUME m + 1 <= N PROVE read[m + 1] \in V
      OBVIOUS
    <3>1. m + 1 \in 1..N /\ (m + 1) - 1 = m /\ m <= N
      BY <1>1
    <3>2. read[m] \in V
      BY <3>1
    <3>3. QED BY <1>3, <1>10, <3>1, <3>2
  <2>3. S = Nat
    <3> HIDE DEF S
    <3>1. S \in SUBSET Nat
      BY DEF S
    <3>2. QED BY <2>1, <2>2, <3>1, Induction
  <2> HIDE DEF V, N
  <2>4. QED BY <1>1, <2>3
<1>12. read \in [0..N -> V]
  <2>1. read = [n \in 0..N |-> read[n]]
    BY <1>8
  <2> HIDE DEF V, N
  <2>2. QED BY <1>11, <2>1
<1>13. QED BY <1>9, <1>10, <1>12 DEF first, Walks

IsLive(d) == d.tag = SegTag /\ ~d.cancel

IsNamed(d) == IsLive(d) /\ d.upid # <<>>

(* facts are what the first k descriptors say.                              *)
TypeHeard(ds, k, facts) ==
    \/ facts.typeId = NoneNamed /\ \A j \in 1..k : ~IsLive(ds[j])
    \/ \E j \in 1..k : /\ IsLive(ds[j]) /\ facts.typeId = <<ds[j].typeId>>
                       /\ \A i \in (j + 1)..k : ~IsLive(ds[i])

UpidHeard(ds, k, facts) ==
    \/ facts.upid = NoneNamed /\ \A j \in 1..k : ~IsNamed(ds[j])
    \/ \E j \in 1..k : /\ IsNamed(ds[j])
                       /\ facts.upid = <<[type |-> ds[j].upidType, bytes |-> ds[j].upid]>>
                       /\ \A i \in (j + 1)..k : ~IsNamed(ds[i])

LEMMA HeardNext ==
  ASSUME NEW ds, NEW k \in Nat, NEW command, NEW pts, NEW facts \in Facts(command, pts),
         TypeHeard(ds, k, facts), UpidHeard(ds, k, facts)
  PROVE  /\ TypeHeard(ds, k + 1, Told(ds[k + 1], facts))
         /\ UpidHeard(ds, k + 1, Told(ds[k + 1], facts))
<1> DEFINE d == ds[k + 1]
           new == Told(d, facts)
<1>0. /\ \A j \in 1..(k + 1) : j \in 1..k \/ j = k + 1
      /\ \A j \in 1..k : j \in 1..(k + 1) /\ \A i \in (j + 1)..(k + 1) : i \in (j + 1)..k \/ i = k + 1
      /\ k + 1 \in 1..(k + 1) /\ (k + 1 + 1)..(k + 1) = {}
  OBVIOUS
<1>1. CASE ~IsLive(d)
  <2>1. new = facts /\ ~IsNamed(d)
    BY <1>1 DEF Told, IsLive, IsNamed
  <2> HIDE DEF new
  <2>2. TypeHeard(ds, k + 1, new)
    BY <1>0, <1>1, <2>1 DEF TypeHeard
  <2>3. UpidHeard(ds, k + 1, new)
    BY <1>0, <2>1 DEF UpidHeard
  <2>4. QED BY <2>2, <2>3 DEF new
<1>2. CASE IsLive(d)
  <2>1. /\ new.typeId = <<d.typeId>>
        /\ new.upid = IF d.upid = <<>> THEN facts.upid
                      ELSE <<[type |-> d.upidType, bytes |-> d.upid]>>
    BY <1>2 DEF Told, Facts, IsLive
  <2> HIDE DEF new
  <2>2. TypeHeard(ds, k + 1, new)
    BY <1>0, <1>2, <2>1 DEF TypeHeard
  <2>3. UpidHeard(ds, k + 1, new)
    <3>1. CASE IsNamed(d)
      BY <1>0, <2>1, <3>1 DEF UpidHeard, IsNamed
    <3>2. CASE ~IsNamed(d)
      <4>1. new.upid = facts.upid
        BY <1>2, <2>1, <3>2 DEF IsNamed
      <4>2. QED BY <1>0, <3>2, <4>1 DEF UpidHeard
    <3>3. QED BY <3>1, <3>2
  <2>4. QED BY <2>2, <2>3 DEF new
<1>3. QED BY <1>1, <1>2

(* The descriptors ds lie in b one after the other, the k-th one from cell  *)
(* at[k] to the one before cell at[k + 1].                                  *)
Lie(b, at, ds) ==
    /\ at \in [1..(Len(ds) + 1) -> Places]
    /\ at[Len(ds) + 1] <= Len(b) + 1
    /\ \A k \in 1..Len(ds) : /\ Has(b, at[k], DescriptorCells(ds[k]))
                             /\ at[k + 1] = at[k] + Len(DescriptorCells(ds[k]))
                             /\ at[k + 1] >= at[k] + 2
                             /\ at[k] >= k
                             /\ at[k + 1] <= at[Len(ds) + 1]

LEMMA DescriptorsLie ==
  ASSUME NEW b \in Cells, NEW lo \in Places, NEW ds \in Seq(Descriptors),
         Has(b, lo, FlattenSeq(Parts(ds)))
  PROVE  \E at : /\ Lie(b, at, ds) /\ at[1] = lo
                 /\ at[Len(ds) + 1] = lo + Len(FlattenSeq(Parts(ds)))
<1> DEFINE n == Len(ds)
<1>1. PICK at : Layout(at, lo, Parts(ds))
  BY PartsTyped, LayoutExists
<1>2. /\ at[n + 1] = lo + Len(FlattenSeq(Parts(ds))) /\ at[n + 1] <= Len(b) + 1
      /\ \A k \in 1..n : Has(b, at[k], DescriptorCells(ds[k]))
  BY <1>1, LayoutHas, PartsTyped
<1>3. /\ n \in Nat /\ at[1] = lo /\ at \in [1..(n + 1) -> Places]
      /\ \A k \in 1..n : at[k + 1] = at[k] + Len(DescriptorCells(ds[k]))
  BY <1>1, PartsTyped DEF Layout
<1>4. \A k \in 1..n : Len(DescriptorCells(ds[k])) \in Nat /\ Len(DescriptorCells(ds[k])) >= 2
  BY PartsTyped
<1>5. \A k \in 1..(n + 1) : at[k] \in Nat /\ at[k] >= 1
  BY <1>3 DEF Places
<1>6. \A k \in 1..n : at[k + 1] >= at[k] + 2
  <2> SUFFICES ASSUME NEW k \in 1..n PROVE at[k + 1] >= at[k] + 2
    OBVIOUS
  <2> DEFINE l == Len(DescriptorCells(ds[k]))
  <2>1. k \in 1..(n + 1) /\ l \in Nat /\ l >= 2
    BY <1>3, <1>4
  <2>2. at[k + 1] = at[k] + l
    BY <1>3
  <2> HIDE DEF l
  <2>3. QED BY <1>5, <2>1, <2>2
<1>7. \A k \in 1..n : at[k] >= k /\ at[k + 1] <= at[n + 1]
  <2> DEFINE S == {m \in Nat : m <= n => at[m + 1] >= m + 1}
             D == {m \in Nat : m <= n => at[(n - m) + 1] <= at[n + 1]}
  <2> HIDE DEF n
  <2>1. S = Nat
    <3>1. 0 \in S
      BY <1>3, <1>5
    <3>2. ASSUME NEW m \in S PROVE m + 1 \in S
      <4> SUFFICES ASSUME m + 1 <= n PROVE at[m + 1 + 1] >= m + 1 + 1
        OBVIOUS
      <4>1. m + 1 \in 1..n /\ m + 1 \in 1..(n + 1) /\ m + 1 + 1 \in 1..(n + 1) /\ at[m + 1] >= m + 1
        BY <1>3
      <4>2. at[m + 1 + 1] >= at[m + 1] + 2
        BY <1>6, <4>1
      <4>3. at[m + 1 + 1] \in Nat /\ at[m + 1] \in Nat
        BY <1>5, <4>1
      <4>4. QED BY <4>1, <4>2, <4>3
    <3>3. S \in SUBSET Nat
      OBVIOUS
    <3> HIDE DEF S
    <3>4. QED BY <3>1, <3>2, <3>3, Induction
  <2>2. D = Nat
    <3>1. 0 \in D
      BY <1>3, <1>5
    <3>2. ASSUME NEW m \in D PROVE m + 1 \in D
      <4> SUFFICES ASSUME m + 1 <= n PROVE at[(n - (m + 1)) + 1] <= at[n + 1]
        OBVIOUS
      <4> DEFINE i == n - m
      <4>1. i \in 1..n /\ i \in 1..(n + 1) /\ i + 1 \in 1..(n + 1) /\ at[i + 1] <= at[n + 1]
              /\ (n - (m + 1)) + 1 = i /\ n + 1 \in 1..(n + 1)
        BY <1>3
      <4> HIDE DEF i
      <4>2. at[i + 1] >= at[i] + 2
        BY <1>6, <4>1
      <4>3. at[i + 1] \in Nat /\ at[i] \in Nat /\ at[n + 1] \in Nat
        BY <1>5, <4>1
      <4>4. QED BY <4>1, <4>2, <4>3
    <3>3. D \in SUBSET Nat
      OBVIOUS
    <3> HIDE DEF D
    <3>4. QED BY <3>1, <3>2, <3>3, Induction
  <2>3. ASSUME NEW k \in 1..n PROVE at[k] >= k /\ at[k + 1] <= at[n + 1]
    <3>1. k - 1 \in S /\ k - 1 <= n /\ (k - 1) + 1 = k /\ n - k \in D /\ n - k <= n /\ n - (n - k) = k
      <4> HIDE DEF S, D
      <4>1. QED BY <1>3, <2>1, <2>2
    <3>2. QED BY <3>1
  <2>4. QED BY <2>3
<1>8. QED BY <1>2, <1>3, <1>6, <1>7 DEF Lie

(* facts are what the descriptors ds say.                                   *)
Heard(ds, facts) == TypeHeard(ds, Len(ds), facts) /\ UpidHeard(ds, Len(ds), facts)

LEMMA WalkRead ==
  ASSUME NEW b \in Cells, NEW lo \in Places, NEW ds \in Seq(Descriptors),
         Has(b, lo, FlattenSeq(Parts(ds))), NEW command, NEW pts,
         NEW facts \in Facts(command, pts), facts.typeId = NoneNamed, facts.upid = NoneNamed
  PROVE  LET hi == lo + Len(FlattenSeq(Parts(ds)))
             last == Walk(b, lo, hi, facts)
         IN last.next = hi /\ last.facts \in Facts(command, pts) /\ Heard(ds, last.facts)
<1> DEFINE n == Len(ds)
           N == Len(b)
           hi == lo + Len(FlattenSeq(Parts(ds)))
           last == Walk(b, lo, hi, facts)
<1>1. PICK at : Lie(b, at, ds) /\ at[1] = lo /\ at[n + 1] = hi
  BY DescriptorsLie
<1>2. n \in Nat /\ N \in Nat
  BY LenProperties, PartsTyped DEF Cells
<1>2a. PICK read : Walks(read, b, lo, hi, command, pts, facts)
  <2> HIDE DEF hi
  <2>1. lo \in Nat
    BY DEF Places
  <2>2. QED BY <2>1, WalkChain
<1>3. /\ read \in [0..N -> Readings(command, pts)]
      /\ read[0] = [next |-> lo, facts |-> facts]
      /\ \A k \in 1..N : read[k] = Step(b, hi, read[k - 1])
      /\ last = read[N]
  <2> HIDE DEF hi
  <2>1. QED BY <1>2a DEF Walks, N, last
<1> HIDE DEF hi, n, N, last
<1>4. /\ at \in [1..(n + 1) -> Places] /\ hi \in Nat /\ hi <= N + 1
      /\ \A k \in 1..n : /\ Has(b, at[k], DescriptorCells(ds[k]))
                         /\ at[k + 1] = at[k] + Len(DescriptorCells(ds[k]))
                         /\ at[k + 1] >= at[k] + 2
                         /\ at[k] >= k
                         /\ at[k + 1] <= hi
  <2>1. n + 1 \in 1..(n + 1)
    BY <1>2
  <2>2. at \in [1..(n + 1) -> Places]
    BY <1>1 DEF Lie, n
  <2>3. QED BY <1>1, <2>1, <2>2 DEF Lie, n, N, Places
<1>5. \A k \in 1..(n + 1) : at[k] \in Nat /\ at[k] \in Places
  BY <1>4 DEF Places
<1>6. n <= N
  <2>1. CASE n = 0
    BY <1>2, <2>1
  <2>2. CASE n # 0
    <3>1. n \in 1..n /\ n \in 1..(n + 1) /\ n + 1 \in 1..(n + 1)
      BY <1>2, <2>2
    <3>2. at[n] >= n /\ at[n] \in Nat /\ at[n + 1] >= at[n] + 2 /\ at[n + 1] \in Nat /\ at[n + 1] <= hi
      BY <1>4, <1>5, <3>1
    <3>3. QED BY <1>2, <1>4, <3>2
  <2>3. QED BY <2>1, <2>2
<1>7. \A k \in 0..N : read[k].next \in Nat /\ read[k].facts \in Facts(command, pts)
                        /\ read[k] = [next |-> read[k].next, facts |-> read[k].facts]
  BY <1>3 DEF Readings
<1> DEFINE S == {m \in Nat : m <= n => /\ read[m].next = at[m + 1]
                                       /\ TypeHeard(ds, m, read[m].facts)
                                       /\ UpidHeard(ds, m, read[m].facts)}
<1>8. 0 \in S
  <2>1. TypeHeard(ds, 0, facts) /\ UpidHeard(ds, 0, facts)
    BY DEF TypeHeard, UpidHeard
  <2>2. read[0].facts = facts /\ read[0].next = at[0 + 1]
    BY <1>1, <1>3
  <2>3. QED BY <2>1, <2>2
<1>9. ASSUME NEW m \in S PROVE m + 1 \in S
  <2> SUFFICES ASSUME m + 1 <= n
               PROVE  /\ read[m + 1].next = at[m + 1 + 1]
                      /\ TypeHeard(ds, m + 1, read[m + 1].facts)
                      /\ UpidHeard(ds, m + 1, read[m + 1].facts)
    OBVIOUS
  <2>1. /\ m \in Nat /\ m <= n
        /\ read[m].next = at[m + 1]
        /\ TypeHeard(ds, m, read[m].facts) /\ UpidHeard(ds, m, read[m].facts)
    BY <1>2
  <2> HIDE DEF S
  <2> DEFINE k == m + 1
             d == ds[k]
             i == at[k]
  <2>2. k \in 1..n /\ k \in 1..(n + 1) /\ k + 1 \in 1..(n + 1) /\ m \in 0..N /\ k \in 1..N /\ k - 1 = m
    BY <1>2, <1>6, <2>1
  <2>3. d \in Descriptors
    BY <2>2 DEF n
  <2>4. Has(b, i, DescriptorCells(d)) /\ i \in Places /\ read[m].next = i
    BY <1>4, <1>5, <2>1, <2>2
  <2>5. ~(i + 2 > hi)
    <3>1. at[k + 1] >= at[k] + 2 /\ at[k + 1] <= hi /\ at[k + 1] \in Nat /\ at[k] \in Nat
      BY <1>4, <1>5, <2>2
    <3> HIDE DEF k
    <3>2. QED BY <1>4, <3>1
  <2>6. read[k] = ReadFacts(b, i, read[m].facts)
    <3>1. read[k] = Step(b, hi, read[m])
      BY <1>3, <2>2
    <3> HIDE DEF i, k
    <3>2. QED BY <2>4, <2>5, <3>1 DEF Step
  <2>7. read[m].facts \in Facts(command, pts)
    BY <1>7, <2>2
  <2> HIDE DEF i, d
  <2>8. read[k] = [next |-> i + Len(DescriptorCells(d)), facts |-> Told(d, read[m].facts)]
    BY <2>3, <2>4, <2>6, <2>7, FactsOfDescriptor
  <2>9. read[k].next = at[k + 1]
    BY <1>4, <2>2, <2>8 DEF i, d
  <2>10. TypeHeard(ds, k, Told(ds[k], read[m].facts)) /\ UpidHeard(ds, k, Told(ds[k], read[m].facts))
    BY <2>1, <2>7, HeardNext
  <2>11. read[k].facts = Told(ds[k], read[m].facts)
    BY <2>8 DEF d
  <2>12. QED BY <2>9, <2>10, <2>11
<1>10. n \in S
  <2> HIDE DEF S
  <2>1. S \in SUBSET Nat
    BY DEF S
  <2>2. QED BY <1>2, <1>8, <1>9, <2>1, Induction
<1>11. read[n].next = hi /\ TypeHeard(ds, n, read[n].facts) /\ UpidHeard(ds, n, read[n].facts)
  BY <1>1, <1>2, <1>10
<1> HIDE DEF S
<1> DEFINE R == {m \in Nat : n + m <= N => read[n + m] = read[n]}
<1>12. R = Nat
  <2>1. 0 \in R
    BY <1>2
  <2>2. ASSUME NEW m \in R PROVE m + 1 \in R
    <3> SUFFICES ASSUME n + (m + 1) <= N PROVE read[n + (m + 1)] = read[n]
      OBVIOUS
    <3>1. read[n + m] = read[n] /\ n + (m + 1) \in 1..N /\ (n + (m + 1)) - 1 = n + m
      BY <1>2
    <3>2. read[n + (m + 1)] = Step(b, hi, read[n])
      BY <1>3, <3>1
    <3>3. read[n].next + 2 > hi
      BY <1>4, <1>11
    <3>4. QED BY <3>2, <3>3 DEF Step
  <2>3. R \in SUBSET Nat
    OBVIOUS
  <2> HIDE DEF R
  <2>4. QED BY <2>1, <2>2, <2>3, Induction
<1>13. read[N] = read[n] /\ n \in 0..N
  <2>1. N - n \in R /\ n + (N - n) = N /\ n \in 0..N
    <3> HIDE DEF R
    <3>1. QED BY <1>2, <1>6, <1>12
  <2>2. QED BY <1>2, <2>1
<1>14. last.next = hi /\ last.facts \in Facts(command, pts) /\ Heard(ds, last.facts)
  BY <1>3, <1>7, <1>11, <1>13 DEF Heard, n
<1>15. QED BY <1>14 DEF last, hi

Sightings == [pts : Maybe(Nat), at : Nat]

\* One component of a splice_insert: the first PTS counts.
SeenStep(b, p) ==
    IF Bit(At(b, 3), 16) THEN [p EXCEPT !.at = p.at + 1]
    ELSE [pts |-> IF p.pts = NoneNamed THEN TimeAt(b, p.at + 1) ELSE p.pts,
          at |-> AfterTime(b, p.at + 1)]

SplicePtsFrom(b, seen) ==
    LET tail == (IF Bit(At(b, 3), 32) THEN 2 ELSE 0) + 1
    IN IF Bit(At(b, 2), 128) THEN [pts |-> NoneNamed, next |-> 3]
       ELSE IF ~Bit(At(b, 3), 64) THEN
         [pts |-> seen[At(b, 4)].pts, next |-> seen[At(b, 4)].at + tail]
       ELSE IF ~Bit(At(b, 3), 16) THEN [pts |-> TimeAt(b, 4), next |-> AfterTime(b, 4) + tail]
       ELSE [pts |-> NoneNamed, next |-> 4 + tail]

Seen(seen, b) ==
    /\ seen \in [0..At(b, 4) -> Sightings]
    /\ seen[0] = [pts |-> NoneNamed, at |-> 5]
    /\ \A k \in 1..At(b, 4) : seen[k] = SeenStep(b, seen[k - 1])

LEMMA SeenTyped ==
  ASSUME NEW b \in Cells, NEW p \in Sightings PROVE SeenStep(b, p) \in Sightings
<1>1. p.pts \in Maybe(Nat) /\ p.at \in Nat /\ p = [pts |-> p.pts, at |-> p.at]
  BY DEF Sightings
<1>2. At(b, p.at + 1 + 1) \in Nat /\ AfterTime(b, p.at + 1) \in Nat
  <2>1. p.at + 1 \in Nat
    BY <1>1
  <2>2. QED BY <2>1, AtIsCell, AfterTimeIsCell DEF Cells
<1>3. TimeAt(b, p.at + 1) \in Maybe(Nat)
  BY <1>2, One DEF TimeAt
<1>4. QED BY <1>1, <1>2, <1>3 DEF SeenStep, Sightings

LEMMA SeenChain ==
  ASSUME NEW b \in Cells
  PROVE  \E seen : Seen(seen, b) /\ SplicePts(b) = SplicePtsFrom(b, seen)
<1> DEFINE V == Sightings
           N == At(b, 4)
           first == [pts |-> NoneNamed, at |-> 5]
           step == [k \in 1..N |-> [x \in V |-> SeenStep(b, x)]]
           seen[k \in 0..At(b, 4)] ==
             IF k = 0 THEN [pts |-> NoneNamed, at |-> 5]
             ELSE LET p == seen[k - 1]
                      t == p.at + 1
                  IN IF ~~Bit(At(b, 3), 16) THEN [p EXCEPT !.at = t]
                     ELSE [pts |-> IF p.pts = NoneNamed THEN TimeAt(b, t) ELSE p.pts,
                           at |-> AfterTime(b, t)]
<1>1. N \in Nat
  BY AtIsCell DEF Cells
<1>2. first \in V
  BY One DEF Sightings
<1>3. \A x \in V : SeenStep(b, x) \in V
  BY SeenTyped
<1>4. step \in Steps(N, V)
  <2> HIDE DEF V, N
  <2>1. QED BY <1>3 DEF Steps
<1>5. PICK f \in [0..N -> V] : Run(f, N, first, step)
  <2> HIDE DEF V, N, first, step, seen
  <2>1. QED BY <1>1, <1>2, <1>4, ChainFromZero
<1>6. f[0] = first /\ \A k \in 1..N : f[k] = step[k][f[k - 1]]
  <2> HIDE DEF V, N, first, step, seen
  <2>1. QED BY <1>5 DEF Run
<1>7. \A k \in 1..N : k - 1 \in 0..N /\ k \in 0..N /\ k # 0
  <2> HIDE DEF N
  <2>1. QED BY <1>1
<1>8. \A k \in 1..N : f[k] = SeenStep(b, f[k - 1])
  <2> SUFFICES ASSUME NEW k \in 1..N PROVE f[k] = SeenStep(b, f[k - 1])
    OBVIOUS
  <2>1. f[k - 1] \in V
    BY <1>7
  <2>2. step[k][f[k - 1]] = SeenStep(b, f[k - 1])
    <3> HIDE DEF V, N
    <3>1. QED BY <2>1
  <2> HIDE DEF V, N, first, step
  <2>3. QED BY <1>6, <2>2
<1>9. f = [k \in 0..At(b, 4) |->
             IF k = 0 THEN [pts |-> NoneNamed, at |-> 5]
             ELSE LET p == f[k - 1]
                      t == p.at + 1
                  IN IF ~~Bit(At(b, 3), 16) THEN [p EXCEPT !.at = t]
                     ELSE [pts |-> IF p.pts = NoneNamed THEN TimeAt(b, t) ELSE p.pts,
                           at |-> AfterTime(b, t)]]
  <2>1. ASSUME NEW k \in 0..N
        PROVE  f[k] = IF k = 0 THEN [pts |-> NoneNamed, at |-> 5]
             ELSE LET p == f[k - 1]
                      t == p.at + 1
                  IN IF ~~Bit(At(b, 3), 16) THEN [p EXCEPT !.at = t]
                     ELSE [pts |-> IF p.pts = NoneNamed THEN TimeAt(b, t) ELSE p.pts,
                           at |-> AfterTime(b, t)]
    <3>1. CASE k = 0
      BY <1>6, <3>1
    <3>2. CASE k # 0
      <4>1. k \in 1..N
        <5> HIDE DEF N
        <5>1. QED BY <1>1, <3>2
      <4>2. f[k] = SeenStep(b, f[k - 1])
        BY <1>8, <4>1
      <4> HIDE DEF N, V
      <4>3. QED BY <3>2, <4>2 DEF SeenStep
    <3>3. QED BY <3>1, <3>2
  <2>2. f = [k \in 0..N |-> f[k]]
    <3> HIDE DEF N, V
    <3>1. QED OBVIOUS
  <2> HIDE DEF V
  <2>3. QED BY <2>1, <2>2
<1>10. seen = [k \in 0..At(b, 4) |->
             IF k = 0 THEN [pts |-> NoneNamed, at |-> 5]
             ELSE LET p == seen[k - 1]
                      t == p.at + 1
                  IN IF ~~Bit(At(b, 3), 16) THEN [p EXCEPT !.at = t]
                     ELSE [pts |-> IF p.pts = NoneNamed THEN TimeAt(b, t) ELSE p.pts,
                           at |-> AfterTime(b, t)]]
  BY <1>9, Zenon DEF seen
<1>11. SplicePts(b) = SplicePtsFrom(b, seen)
  BY DEF SplicePts, SplicePtsFrom
<1> HIDE DEF seen
<1>12. seen[0] = first /\ \A k \in 1..N : seen[k] = SeenStep(b, seen[k - 1])
  <2>1. 0 \in 0..N
    <3> HIDE DEF N
    <3>1. QED BY <1>1
  <2>2. seen[0] = first
    BY <1>10, <2>1
  <2>3. ASSUME NEW k \in 1..N PROVE seen[k] = SeenStep(b, seen[k - 1])
    <3>1. k \in 0..N /\ k # 0
      BY <1>7
    <3>2. seen[k] = LET p == seen[k - 1]
                        t == p.at + 1
                    IN IF ~~Bit(At(b, 3), 16) THEN [p EXCEPT !.at = t]
                       ELSE [pts |-> IF p.pts = NoneNamed THEN TimeAt(b, t) ELSE p.pts,
                             at |-> AfterTime(b, t)]
      BY <1>10, <3>1
    <3>3. QED BY <3>2 DEF SeenStep
  <2>4. QED BY <2>2, <2>3
<1> HIDE DEF first
<1> DEFINE S == {m \in Nat : m <= N => seen[m] \in V}
<1>13. S = Nat
  <2>1. 0 \in S
    BY <1>2, <1>12
  <2>2. ASSUME NEW m \in S PROVE m + 1 \in S
    <3> HIDE DEF V, N
    <3> SUFFICES ASSUME m + 1 <= N PROVE seen[m + 1] \in V
      OBVIOUS
    <3>1. m + 1 \in 1..N /\ (m + 1) - 1 = m /\ m <= N
      BY <1>1
    <3>2. seen[m] \in V
      BY <3>1
    <3>3. QED BY <1>3, <1>12, <3>1, <3>2
  <2>3. S \in SUBSET Nat
    OBVIOUS
  <2> HIDE DEF S
  <2>4. QED BY <2>1, <2>2, <2>3, Induction
<1>14. \A k \in 0..N : seen[k] \in V
  <2> HIDE DEF V, N
  <2>1. QED BY <1>1, <1>13
<1>15. seen \in [0..N -> V]
  <2>1. seen = [k \in 0..N |-> seen[k]]
    BY <1>10
  <2> HIDE DEF V, N
  <2>2. QED BY <1>14, <2>1
<1>16. Seen(seen, b)
  BY <1>12, <1>15 DEF Seen, first
<1>17. QED BY <1>11, <1>16

(* pts is the first time that the first k components name.                  *)
Earliest(m, k, pts) ==
    \/ pts = NoneNamed /\ \A j \in 1..k : m.times[j] = NoneNamed
    \/ \E j \in 1..k : /\ m.times[j] # NoneNamed /\ pts = m.times[j]
                       /\ \A i \in 1..(j - 1) : m.times[i] = NoneNamed

LEMMA EarliestNext ==
  ASSUME NEW m, NEW k \in Nat, NEW pts, Earliest(m, k, pts)
  PROVE  Earliest(m, k + 1, IF pts = NoneNamed THEN m.times[k + 1] ELSE pts)
<1>0. /\ \A j \in 1..(k + 1) : j \in 1..k \/ j = k + 1
      /\ \A j \in 1..k : j \in 1..(k + 1)
      /\ k + 1 \in 1..(k + 1) /\ (k + 1) - 1 = k
  OBVIOUS
<1>1. CASE pts # NoneNamed
  <2>1. PICK j \in 1..k : /\ m.times[j] # NoneNamed /\ pts = m.times[j]
                          /\ \A i \in 1..(j - 1) : m.times[i] = NoneNamed
    BY <1>1 DEF Earliest
  <2>2. Earliest(m, k + 1, pts)
    BY <1>0, <2>1 DEF Earliest
  <2>3. QED BY <1>1, <2>2
<1>2. CASE pts = NoneNamed
  <2>1. \A j \in 1..k : m.times[j] = NoneNamed
    BY <1>2 DEF Earliest
  <2> DEFINE t == m.times[k + 1]
  <2>2. Earliest(m, k + 1, t)
    <3>1. CASE t = NoneNamed
      BY <1>0, <2>1, <3>1 DEF Earliest
    <3>2. CASE t # NoneNamed
      <4>1. \A i \in 1..((k + 1) - 1) : m.times[i] = NoneNamed
        BY <1>0, <2>1
      <4>2. QED BY <1>0, <3>2, <4>1 DEF Earliest
    <3>3. QED BY <3>1, <3>2
  <2>3. QED BY <1>2, <2>2
<1>3. QED BY <1>1, <1>2

\* parse_splice_insert_pts ends where parse_command_info does.
LEMMA SplicePtsRead ==
  ASSUME NEW b \in Cells, NEW m \in Inserts, Has(b, 1, InsertCells(m))
  PROVE  /\ SplicePts(b).next = Len(InsertCells(m)) + 1
         /\ Earliest(m, Len(m.times), SplicePts(b).pts)
<1> DEFINE n == Len(m.times)
           end == BreakAt(m)
           w == IF m.dur # NoneNamed THEN 2 ELSE 0
           flags == At(b, 3)
           tag == InsertTag(m)
           length == Len(InsertCells(m))
<1>1. InsertLies(b, m)
  BY InsertForm
<1>2. PICK from : Spliced(b, from)
  BY SpliceWalk
<1>3. PICK seen : Seen(seen, b) /\ SplicePts(b) = SplicePtsFrom(b, seen)
  BY SeenChain
<1>4. /\ ~Bit(At(b, 2), 128)
      /\ Bit(flags, 64) <=> m.program
      /\ Bit(flags, 32) <=> m.dur # NoneNamed
      /\ Bit(flags, 16) <=> m.imm
      /\ SpliceCount(b) = n /\ SpliceTag(b) = tag
  BY <1>1, InsertFlagsRead
<1>5. /\ Layout(from, PartsAt(m), InsertParts(m))
      /\ from[n + 1] = end /\ \A k \in 1..n : from[k] \in Places /\ Has(b, from[k], InsertPart(m, k))
  BY <1>1, <1>2, SpliceLayout
<1>6. end + w + 1 = length + 1 /\ end \in Nat
  <2>1. Len(BreakCells(m)) = w
    BY BreakTyped
  <2>2. length = end + Len(BreakCells(m)) /\ end \in Nat
    BY InsertForm, InsertPartsTyped
  <2> HIDE DEF end, w, length
  <2>3. w \in Nat
    BY DEF w
  <2>4. QED BY <2>1, <2>2, <2>3
<1>7. n \in Nat /\ \A k \in 1..n : m.times[k] \in Maybe(Nat) /\ (m.imm => m.times[k] = NoneNamed)
  BY InsertTyped
<1>8. /\ from[1] = PartsAt(m)
      /\ \A k \in 1..n : from[k + 1] = from[k] + Len(InsertPart(m, k)) /\ from[k] \in Nat
  <2>1. Len(InsertParts(m)) = n /\ \A k \in 1..n : InsertParts(m)[k] = InsertPart(m, k)
    BY InsertPartsTyped
  <2>2. QED BY <1>5, <2>1 DEF Layout, Places
<1>9. \A k \in 1..n : /\ ~m.imm => /\ TimeAt(b, from[k] + tag) = m.times[k]
                                   /\ AfterTime(b, from[k] + tag) = from[k + 1]
                      /\ m.imm => from[k] + tag = from[k + 1]
  <2> SUFFICES ASSUME NEW k \in 1..n
               PROVE  /\ ~m.imm => /\ TimeAt(b, from[k] + tag) = m.times[k]
                                   /\ AfterTime(b, from[k] + tag) = from[k + 1]
                      /\ m.imm => from[k] + tag = from[k + 1]
    OBVIOUS
  <2>1. from[k] \in Places /\ Has(b, from[k], InsertPart(m, k))
    BY <1>5
  <2>2. from[k + 1] = from[k] + Len(InsertPart(m, k))
    BY <1>8
  <2>3. QED BY <2>1, <2>2, PartRead
<1> HIDE DEF n, end, flags, length
<1>10. CASE m.program /\ m.imm
  <2>1. n = 0 /\ PartsAt(m) = 4
    BY <1>10, InsertTyped DEF n, PartsAt
  <2>2. end = 4
    BY <1>5, <1>8, <2>1
  <2>3. SplicePts(b) = [pts |-> NoneNamed, next |-> 4 + (w + 1)]
    BY <1>3, <1>4, <1>10 DEF SplicePtsFrom, flags
  <2>4. SplicePts(b).next = length + 1
    <3>1. 4 + (w + 1) = 4 + w + 1
      OBVIOUS
    <3>2. QED BY <1>6, <2>2, <2>3, <3>1
  <2>5. Earliest(m, n, NoneNamed)
    BY <2>1 DEF Earliest
  <2>6. QED BY <2>3, <2>4, <2>5 DEF length, n
<1>11. CASE m.program /\ ~m.imm
  <2>0. n = 1 /\ PartsAt(m) = 4 /\ tag = 0
    BY <1>11, InsertTyped DEF n, PartsAt, InsertTag
  <2>1. n = 1 /\ PartsAt(m) = 4 /\ tag = 0 /\ 1 \in 1..n
    <3> HIDE DEF tag
    <3>1. QED BY <2>0
  <2>2. from[1] = 4 /\ from[1 + 1] = end /\ 4 + 0 = 4
    BY <1>5, <1>8, <2>1
  <2>3. TimeAt(b, 4) = m.times[1] /\ AfterTime(b, 4) = end
    <3>1. TimeAt(b, from[1] + tag) = m.times[1] /\ AfterTime(b, from[1] + tag) = from[1 + 1]
      BY <1>9, <1>11, <2>1
    <3>2. from[1] + tag = 4
      BY <2>1, <2>2
    <3>3. QED BY <2>2, <3>1, <3>2
  <2>4. SplicePts(b) = [pts |-> TimeAt(b, 4), next |-> AfterTime(b, 4) + (w + 1)]
    BY <1>3, <1>4, <1>11 DEF SplicePtsFrom, flags
  <2>5. SplicePts(b).next = length + 1
    <3>1. end + (w + 1) = end + w + 1
      BY <1>6
    <3>2. QED BY <1>6, <2>3, <2>4, <3>1
  <2>6. Earliest(m, n, m.times[1])
    <3>1. 1..n = {1} /\ 1..(1 - 1) = {}
      BY <2>1
    <3>2. QED BY <3>1 DEF Earliest
  <2>7. QED BY <2>3, <2>4, <2>5, <2>6 DEF length, n
<1>12. CASE ~m.program
  <2>1. At(b, 4) = n /\ tag = 1 /\ PartsAt(m) = 5
    BY <1>4, <1>12 DEF SpliceCount, InsertTag, PartsAt, flags
  <2>2. /\ seen \in [0..n -> Sightings] /\ seen[0] = [pts |-> NoneNamed, at |-> 5]
        /\ \A k \in 1..n : seen[k] = SeenStep(b, seen[k - 1])
    BY <1>3, <2>1 DEF Seen
  <2>3. \A k \in 0..n : seen[k] = [pts |-> seen[k].pts, at |-> seen[k].at]
    BY <2>2 DEF Sightings
  <2> DEFINE S == {k \in Nat : k <= n => seen[k].at = from[k + 1] /\ Earliest(m, k, seen[k].pts)}
  <2>4. 0 \in S
    <3>1. Earliest(m, 0, NoneNamed)
      BY DEF Earliest
    <3>2. seen[0].at = from[0 + 1]
      BY <1>8, <2>1, <2>2
    <3>3. QED BY <2>2, <3>1, <3>2
  <2>5. ASSUME NEW j \in S PROVE j + 1 \in S
    <3> SUFFICES ASSUME j + 1 <= n
                 PROVE  seen[j + 1].at = from[j + 1 + 1] /\ Earliest(m, j + 1, seen[j + 1].pts)
      OBVIOUS
    <3> DEFINE k == j + 1
    <3>1. /\ j \in Nat /\ j <= n /\ k \in 1..n /\ k - 1 = j /\ j \in 0..n
          /\ seen[j].at = from[k] /\ Earliest(m, j, seen[j].pts)
      BY <1>7
    <3>2. seen[k] = SeenStep(b, seen[j]) /\ seen[j].at + 1 = from[k] + tag
      BY <2>1, <2>2, <3>1
    <3> HIDE DEF S
    <3>3. CASE m.imm
      <4>1. seen[k] = [seen[j] EXCEPT !.at = seen[j].at + 1]
        BY <1>4, <3>2, <3>3 DEF SeenStep, flags
      <4>2. seen[k].at = from[k] + tag /\ seen[k].pts = seen[j].pts
        BY <2>3, <3>1, <3>2, <4>1
      <4>3. from[k] + tag = from[k + 1] /\ m.times[k] = NoneNamed
        BY <1>7, <1>9, <3>1, <3>3
      <4>4. Earliest(m, k, IF seen[j].pts = NoneNamed THEN m.times[k] ELSE seen[j].pts)
        BY <3>1, EarliestNext
      <4>5. (IF seen[j].pts = NoneNamed THEN m.times[k] ELSE seen[j].pts) = seen[j].pts
        BY <4>3
      <4>6. QED BY <4>2, <4>3, <4>4, <4>5
    <3>4. CASE ~m.imm
      <4>1. seen[k] = [pts |-> IF seen[j].pts = NoneNamed THEN TimeAt(b, from[k] + tag)
                               ELSE seen[j].pts,
                       at |-> AfterTime(b, from[k] + tag)]
        BY <1>4, <3>2, <3>4 DEF SeenStep, flags
      <4>2. TimeAt(b, from[k] + tag) = m.times[k] /\ AfterTime(b, from[k] + tag) = from[k + 1]
        BY <1>9, <3>1, <3>4
      <4>3. Earliest(m, k, IF seen[j].pts = NoneNamed THEN m.times[k] ELSE seen[j].pts)
        BY <3>1, EarliestNext
      <4>4. QED BY <4>1, <4>2, <4>3
    <3>5. QED BY <3>3, <3>4
  <2>6. n \in S
    <3> HIDE DEF S
    <3>1. S \in SUBSET Nat
      BY DEF S
    <3>2. QED BY <1>7, <2>4, <2>5, <3>1, Induction
  <2>7. seen[n].at = end /\ Earliest(m, n, seen[n].pts)
    BY <1>5, <1>7, <2>6
  <2>8. SplicePts(b) = [pts |-> seen[n].pts, next |-> seen[n].at + (w + 1)]
    BY <1>3, <1>4, <1>12, <2>1 DEF SplicePtsFrom, flags
  <2>9. SplicePts(b).next = length + 1
    <3>1. end + (w + 1) = end + w + 1
      BY <1>6
    <3>2. QED BY <1>6, <2>7, <2>8, <3>1
  <2>10. QED BY <2>7, <2>8, <2>9 DEF length, n
<1>13. QED BY <1>10, <1>11, <1>12

(* pts is the one time that command m shows.                                *)
Shows(m, pts) ==
    CASE m.type = "signal" -> pts = m.time
      [] m.type = "insert" /\ ~m.cancel -> Earliest(m, Len(m.times), pts)
      [] OTHER -> pts = NoneNamed

LEMMA PtsRead ==
  ASSUME NEW s, NEW m \in Commands, s.body \in Cells, s.type = TypeOf(m),
         Has(s.body, 1, CommandCells(m))
  PROVE  PtsOf(s).next = Len(CommandCells(m)) + 1 /\ Shows(m, PtsOf(s).pts)
<1> DEFINE b == s.body
<1>0. b \in Cells /\ Has(b, 1, CommandCells(m)) /\ 1 \in Places
  BY DEF Places
<1>1. CASE m.type = "signal"
  <2>1. m = [type |-> "signal", time |-> m.time] /\ m.time \in Maybe(Nat) /\ s.type = 6
          /\ CommandCells(m) = TimeCells(m.time)
    BY <1>1, CommandTyped DEF TypeOf, CommandCells
  <2>2. TimeAt(b, 1) = m.time /\ AfterTime(b, 1) = 1 + Len(CommandCells(m))
    <3> HIDE DEF b
    <3>1. QED BY <1>0, <2>1, TimeRead
  <2>3. PtsOf(s) = [pts |-> TimeAt(b, 1), next |-> AfterTime(b, 1)]
    BY <2>1 DEF PtsOf
  <2>4. 1 + Len(CommandCells(m)) = Len(CommandCells(m)) + 1
    BY CommandTyped
  <2>5. QED BY <1>1, <2>2, <2>3, <2>4 DEF Shows
<1>2. CASE m.type = "insert" /\ ~m.cancel
  <2>1. m \in Inserts /\ s.type = 5 /\ CommandCells(m) = InsertCells(m)
    BY <1>2, CommandTyped DEF TypeOf, CommandCells
  <2>2. PtsOf(s) = SplicePts(b)
    BY <2>1 DEF PtsOf
  <2> HIDE DEF b
  <2>3. SplicePts(b).next = Len(InsertCells(m)) + 1 /\ Earliest(m, Len(m.times), SplicePts(b).pts)
    BY <1>0, <2>1, SplicePtsRead
  <2>4. QED BY <1>2, <2>1, <2>2, <2>3 DEF Shows
<1>3. CASE m.type = "insert" /\ m.cancel
  <2>1. s.type = 5 /\ CommandCells(m) = <<m.event, 128>>
    BY <1>3, CommandTyped DEF TypeOf, CommandCells, InsertCells
  <2>2. PtsOf(s) = SplicePts(b)
    BY <2>1 DEF PtsOf
  <2>3. At(b, 2) = 128
    <3> HIDE DEF b
    <3>1. At(b, 1 + 1) = 128
      BY <1>0, <2>1, HasAtTwo
    <3>2. QED BY <3>1
  <2>4. Bit(128, 128)
    BY DEF Bit
  <2>5. SplicePts(b) = [pts |-> NoneNamed, next |-> 3]
    BY <2>3, <2>4, SMTT(30) DEF SplicePts
  <2>6. Len(<<m.event, 128>>) + 1 = 3
    OBVIOUS
  <2>7. QED BY <1>3, <2>1, <2>2, <2>5, <2>6 DEF Shows
<1>4. CASE m.type \in {"null", "bandwidth"}
  <2>1. CommandCells(m) = <<>> /\ Len(<<>>) + 1 = 1
    BY <1>4 DEF CommandCells
  <2>2. PtsOf(s) = [pts |-> NoneNamed, next |-> 1]
    BY <1>4, CommandTyped DEF PtsOf, TypeOf
  <2>3. Shows(m, NoneNamed)
    BY <1>4 DEF Shows
  <2>4. QED BY <2>1, <2>2, <2>3
<1>5. QED BY <1>1, <1>2, <1>3, <1>4, CommandTyped

(* The decoder of esam.rs, of the section of a cue: the facts are those of  *)
(* the command and of the descriptors.                                      *)
THEOREM FactsRead ==
  ASSUME NEW c \in Cues
  PROVE  LET facts == FactsOf(Encode(c))
         IN /\ facts \in Facts(CommandName(TypeOf(c.cmd)), facts.pts)
            /\ Shows(c.cmd, facts.pts)
            /\ Heard(c.descs, facts)
<1> DEFINE s == Encode(c)
           b == s.body
           p == PtsOf(s)
           w == WordAt(c)
           l == Len(LoopCells(c))
           hi == LoopEnd(c)
           command == CommandName(s.type)
           none == [command |-> command, typeId |-> NoneNamed, upid |-> NoneNamed, pts |-> p.pts]
           last == Walk(b, w + 1, hi, none)
<1>1. b \in Cells /\ CueLies(b, c) /\ s.type = TypeOf(c.cmd) /\ s.table = 252
  BY EncodeForm, BodyForm
<1>2. p.next = w /\ Shows(c.cmd, p.pts)
  BY <1>1, CueTyped, PtsRead DEF CueLies, WordAt
<1> HIDE DEF p
<1>3. FactsOf(s) = Read(b, Walk(b, p.next + 1, p.next + 1 + (At(b, p.next) % LoopMod), none))
  BY <1>1 DEF FactsOf, FactsFrom, p
<1> HIDE DEF b, s, command
<1>4. w \in Places /\ w + 1 \in Places /\ w \in Nat /\ hi \in Nat /\ l \in Nat /\ hi = w + 1 + l
  <2>1. w \in Nat /\ w >= 1 /\ hi = w + 1 + l /\ l \in Nat
    BY CueTyped DEF LoopEnd
  <2> HIDE DEF w, l, hi
  <2>2. QED BY <2>1 DEF Places
<1>5. At(b, w) % LoopMod = l
  <2>1. At(b, w) = LoopWord(c)
    BY <1>1, <1>4, HasAt DEF CueLies
  <2>2. QED BY <2>1, CueTyped
<1>6. FactsOf(s) = Read(b, last)
  <2>1. p.next + 1 = w + 1 /\ p.next + 1 + (At(b, p.next) % LoopMod) = hi
    BY <1>2, <1>4, <1>5
  <2> HIDE DEF w, hi, none
  <2>2. QED BY <1>3, <2>1
<1>7. none \in Facts(command, p.pts) /\ none.typeId = NoneNamed /\ none.upid = NoneNamed
  BY One DEF Facts, Maybe, NoneNamed
<1>8. last.next = hi /\ last.facts \in Facts(command, p.pts) /\ Heard(c.descs, last.facts)
  <2>1. c.descs \in Seq(Descriptors) /\ LoopCells(c) = FlattenSeq(Parts(c.descs))
    BY CueTyped
  <2>2. Has(b, w + 1, FlattenSeq(Parts(c.descs))) /\ w + 1 + Len(FlattenSeq(Parts(c.descs))) = hi
    BY <1>1, <1>4, <2>1 DEF CueLies
  <2> HIDE DEF none, hi, w
  <2>3. LET top == w + 1 + Len(FlattenSeq(Parts(c.descs)))
            end == Walk(b, w + 1, top, none)
        IN end.next = top /\ end.facts \in Facts(command, p.pts) /\ Heard(c.descs, end.facts)
    BY <1>1, <1>4, <1>7, <2>1, <2>2, WalkRead
  <2>4. QED BY <2>2, <2>3
<1>9. hi <= Len(b) + 1 /\ Len(b) \in Nat
  <2>1. Len(c.pad[2]) \in Nat /\ Len(b) = hi + Len(c.pad[2]) - 1 /\ Len(b) \in Nat
    BY <1>1, CueTyped, LenProperties DEF CueLies, Cells
  <2> HIDE DEF hi
  <2>2. QED BY <1>4, <2>1, SMTT(30)
<1>10. FactsOf(s) = last.facts
  <2> HIDE DEF hi, last
  <2>1. QED BY <1>4, <1>6, <1>8, <1>9 DEF Read
<1>11. last.facts.pts = p.pts
  BY <1>8 DEF Facts
<1> HIDE DEF last
<1>12. QED BY <1>1, <1>2, <1>8, <1>10, <1>11 DEF command, s

-----------------------------------------------------------------------------
(* The edits in place find what the cue holds.                              *)

(* A descriptor, as walk_segmentation and the edits see it.                 *)
LEMMA DescriptorSeen ==
  ASSUME NEW b \in Cells, NEW i \in Places, NEW d \in Descriptors,
         Has(b, i, DescriptorCells(d))
  PROVE  /\ After(b, i) = i + Len(DescriptorCells(d))
         /\ LiveSegmentation(b, i) <=> IsLive(d)
         /\ ~IsLive(d) => SegDurationCell(b, i) = 0 /\ UpidCell(b, i) = 0
         /\ IsLive(d) =>
              /\ d \in Segmentations /\ SegmentationLies(b, i, d)
              /\ SegDurationCell(b, i) =
                   IF d.dur # NoneNamed THEN i + 5 + Len(Components(d)) ELSE 0
              /\ UpidCell(b, i) = i + UpidAt(d) /\ UpidCell(b, i) # 0
<1> DEFINE m == Len(DescriptorCells(d))
<1>1. CASE d.tag # SegTag
  <2>2. At(b, i) # SegTag
    BY <1>1, PlainCells
  <2>3. After(b, i) = i + m
    BY <1>1, PlainCells
  <2>4. b[i] # SegTag
    <3>1. DescriptorCells(d) \in Cells /\ m \in Nat /\ m >= 2
      <4>1. m \in Nat /\ m = DescriptorCells(d)[2] + 2 /\ DescriptorCells(d)[2] \in Nat
              /\ DescriptorCells(d) \in Cells
        BY DescriptorForm
      <4> HIDE DEF m
      <4>2. QED BY <4>1
    <3>2. i + m <= Len(b) + 1 /\ Len(b) \in Nat /\ i \in Nat /\ i >= 1
      BY LenProperties DEF Has, Cells, Places
    <3>3. i \in DOMAIN b
      <4> HIDE DEF m
      <4>1. i \in 1..Len(b)
        BY <3>1, <3>2
      <4>2. QED BY <4>1, LenProperties DEF Cells
    <3>4. QED BY <2>2, <3>3 DEF At
  <2>5. ~LiveSegmentation(b, i) /\ ~IsLive(d)
    BY <1>1, <2>4 DEF LiveSegmentation, IsLive
  <2>6. QED BY <2>3, <2>5 DEF SegDurationCell, UpidCell
<1>2. CASE d.tag = SegTag /\ d.cancel
  <2>1. b[i + 3] = 128 /\ After(b, i) = i + m
    BY <1>2, CancelledCells
  <2>2. Bit(128, 128)
    BY DEF Bit
  <2>3. ~LiveSegmentation(b, i) /\ ~IsLive(d)
    BY <1>2, <2>1, <2>2 DEF LiveSegmentation, IsLive
  <2>4. QED BY <2>1, <2>3 DEF SegDurationCell, UpidCell
<1>3. CASE d.tag = SegTag /\ ~d.cancel
  <2> DEFINE n == Len(Components(d))
             u0 == UpidAt(d)
             t0 == TypeAt(d)
             r == Len(d.rest)
             l == Len(d.upid)
             q == Len(d.dur)
             end == After(b, i)
             j == AfterComponents(b, i)
  <2>1. d \in Segmentations /\ IsLive(d)
    BY <1>3, Kinds DEF IsLive
  <2>2. SegmentationLies(b, i, d)
    BY <2>1, SegmentationForm
  <2>3. /\ \A x \in i..(i + 4) : x \in DOMAIN b /\ At(b, x) = b[x]
        /\ b[i] = SegTag /\ b[i + 1] = t0 - 1 + r /\ b[i + 3] = 0
        /\ At(b, i + u0 + 1) = l /\ end = i + t0 + 1 + r
        /\ b[i + 4] = SegFlags(d)
    BY <2>1, <2>2, SegmentationCells
  <2>4. /\ i \in Nat /\ i >= 1 /\ n \in Nat /\ u0 \in Nat /\ u0 >= 5 /\ t0 \in Nat
        /\ r \in Nat /\ r >= 2 /\ l \in Nat /\ t0 = u0 + 2 + l /\ u0 = 5 + n + q
        /\ q = (IF d.dur = NoneNamed THEN 0 ELSE 1) /\ q \in Nat
    <3>1. /\ n \in Nat /\ u0 \in Nat /\ u0 >= 5 /\ t0 \in Nat /\ r \in Nat /\ r >= 2 /\ l \in Nat
          /\ q = IF d.dur = NoneNamed THEN 0 ELSE 1
      BY <2>1, SegmentationTyped
    <3>2. t0 = u0 + 2 + l /\ u0 = 5 + n + q
      BY DEF TypeAt, UpidAt
    <3> HIDE DEF n, u0, t0, r, l, q
    <3>3. q \in Nat
      BY <3>1
    <3>4. QED BY <3>1, <3>2, <3>3 DEF Places
  <2>5. i + 4 \in i..(i + 4)
    BY <2>4
  <2>6. j = i + 5 + n
    <3>1. (IF Bit(At(b, i + 4), 128) THEN i + 5 ELSE i + 6 + At(b, i + 5)) = i + 5 + n
      BY <2>1, <2>2, SegmentationWalk
    <3>2. b[i + 4] = At(b, i + 4)
      BY <2>3, <2>5
    <3>3. QED BY <3>1, <3>2 DEF AfterComponents
  <2>7. Bit(b[i + 4], 64) <=> d.dur # NoneNamed
    BY <2>1, <2>3, SegmentationFlags
  <2>9. LiveSegmentation(b, i)
    <3>1. ~Bit(0, 128)
      BY DEF Bit
    <3> HIDE DEF t0, r, u0, l, n, q
    <3>2. t0 - 1 + r >= 3
      BY <2>4
    <3>3. QED BY <2>3, <3>1, <3>2 DEF LiveSegmentation
  <2>10. SegDurationCell(b, i) = IF d.dur # NoneNamed THEN i + 5 + n ELSE 0
    <3> HIDE DEF t0, r, u0, l, n, q, end, j
    <3>1. j < end
      BY <2>3, <2>4, <2>6
    <3>2. SegDurationCell(b, i) =
            IF LiveSegmentation(b, i) /\ Bit(b[i + 4], 64) /\ j < end THEN j ELSE 0
      BY Zenon DEF SegDurationCell, j, end
    <3>3. QED BY <2>6, <2>7, <2>9, <3>1, <3>2
  <2>11. UpidCell(b, i) = i + u0 /\ i + u0 # 0
    <3> DEFINE x == IF Bit(b[i + 4], 64) THEN 1 ELSE 0
               y == j + x
    <3> HIDE DEF t0, r, u0, l, n, q, end, j
    <3>1. y = i + u0
      <4>1. x = q
        BY <2>4, <2>7
      <4> HIDE DEF x
      <4>2. QED BY <2>4, <2>6, <4>1
    <3>2. UpidCell(b, i) =
            IF /\ LiveSegmentation(b, i) /\ y + 1 < end
               /\ y + 2 + At(b, y + 1) <= end
            THEN y ELSE 0
      BY Zenon DEF UpidCell, j, end
    <3> HIDE DEF y
    <3>3. At(b, y + 1) = l
      BY <2>3, <3>1
    <3>4. y + 1 < end /\ y + 2 + l <= end
      BY <2>3, <2>4, <3>1
    <3>5. QED BY <2>4, <2>9, <3>1, <3>2, <3>3, <3>4
  <2>12. end = i + m
    <3>1. m = t0 + 1 + r
      BY <2>1, SegmentationForm
    <3> HIDE DEF m, t0, r, u0, n, q, l, end
    <3>2. QED BY <2>3, <2>4, <3>1
  <2>13. QED BY <2>1, <2>2, <2>9, <2>10, <2>11, <2>12
<1>4. QED BY <1>1, <1>2, <1>3

LoopOf(c) == [word |-> WordAt(c), lo |-> WordAt(c) + 1, hi |-> LoopEnd(c)]

\* at: where the descriptors of cue c begin in its section.
Found(c, at) ==
    /\ Lie(BodyOf(c), at, c.descs)
    /\ at[1] = WordAt(c) + 1 /\ at[Len(c.descs) + 1] = LoopEnd(c)

LEMMA FoundExists ==
  ASSUME NEW c \in Cues
  PROVE  /\ \E at : Found(c, at)
         /\ WordAt(c) \in Places /\ WordAt(c) + 1 \in Places /\ LoopEnd(c) \in Places
         /\ LoopEnd(c) = WordAt(c) + 1 + Len(LoopCells(c))
         /\ LoopEnd(c) <= Len(BodyOf(c)) + 1 /\ WordAt(c) < LoopEnd(c)
<1> DEFINE w == WordAt(c)
           l == Len(LoopCells(c))
           hi == LoopEnd(c)
           b == BodyOf(c)
<1>1. b \in Cells /\ CueLies(b, c)
  BY BodyForm
<1>2. /\ w \in Places /\ w + 1 \in Places /\ hi \in Places /\ w < hi
      /\ hi = w + 1 + l /\ l \in Nat /\ w \in Nat
  <2>1. w \in Nat /\ w >= 1 /\ hi = w + 1 + l /\ l \in Nat
    BY CueTyped DEF LoopEnd
  <2> HIDE DEF w, l, hi
  <2>2. QED BY <2>1 DEF Places
<1> HIDE DEF b
<1>3. c.descs \in Seq(Descriptors) /\ LoopCells(c) = FlattenSeq(Parts(c.descs))
  BY CueTyped
<1>4. Has(b, w + 1, FlattenSeq(Parts(c.descs))) /\ w + 1 + Len(FlattenSeq(Parts(c.descs))) = hi
  BY <1>1, <1>2, <1>3 DEF CueLies
<1>5. \E at : /\ Lie(b, at, c.descs) /\ at[1] = w + 1
              /\ at[Len(c.descs) + 1] = w + 1 + Len(FlattenSeq(Parts(c.descs)))
  <2> HIDE DEF w, hi
  <2>1. QED BY <1>1, <1>2, <1>3, <1>4, DescriptorsLie
<1>6. \E at : Found(c, at)
  <2> HIDE DEF w, hi
  <2>1. PICK at : /\ Lie(b, at, c.descs) /\ at[1] = w + 1
                  /\ at[Len(c.descs) + 1] = w + 1 + Len(FlattenSeq(Parts(c.descs)))
    BY <1>5
  <2>2. at[Len(c.descs) + 1] = hi
    BY <1>4, <2>1
  <2>3. QED BY <2>1, <2>2 DEF Found, b, w, hi
<1>7. hi <= Len(b) + 1
  <2> DEFINE p == Len(c.pad[2])
  <2>1. p \in Nat /\ Len(b) = hi + p - 1 /\ Len(b) \in Nat
    BY <1>1, CueTyped, LenProperties DEF CueLies, Cells
  <2> HIDE DEF hi, p
  <2>2. QED BY <1>2, <2>1 DEF Places
<1>8. QED BY <1>2, <1>6, <1>7 DEF b

\* The places of Found, and the facts that go with them.
LEMMA FoundPlaces ==
  ASSUME NEW c \in Cues, NEW at, Found(c, at)
  PROVE  /\ Len(c.descs) \in Nat /\ DOMAIN c.descs = 1..Len(c.descs)
         /\ \A k \in 1..(Len(c.descs) + 1) :
               at[k] \in Places /\ at[k] \in Nat /\ at[k] >= WordAt(c) + 1
         /\ \A k \in 1..Len(c.descs) :
              /\ c.descs[k] \in Descriptors
              /\ Has(BodyOf(c), at[k], DescriptorCells(c.descs[k]))
              /\ at[k + 1] = at[k] + Len(DescriptorCells(c.descs[k]))
              /\ After(BodyOf(c), at[k]) = at[k + 1]
              /\ at[k] + 2 <= LoopEnd(c) /\ at[k + 1] <= LoopEnd(c)
<1> DEFINE n == Len(c.descs)
           b == BodyOf(c)
           w == WordAt(c)
           hi == LoopEnd(c)
<1>1. n \in Nat /\ c.descs \in Seq(Descriptors) /\ DOMAIN c.descs = 1..n /\ b \in Cells
        /\ w \in Nat /\ hi \in Nat
  <2>1. c.descs \in Seq(Descriptors) /\ w \in Nat /\ hi \in Nat
    BY CueTyped
  <2>2. \A ds \in Seq(Descriptors) : Len(ds) \in Nat /\ DOMAIN ds = 1..Len(ds)
    OBVIOUS
  <2>3. QED BY <2>1, <2>2, BodyForm
<1>2. /\ at \in [1..(n + 1) -> Places] /\ at[1] = w + 1 /\ at[n + 1] = hi
      /\ \A k \in 1..n : /\ Has(b, at[k], DescriptorCells(c.descs[k]))
                         /\ at[k + 1] = at[k] + Len(DescriptorCells(c.descs[k]))
                         /\ at[k + 1] >= at[k] + 2
                         /\ at[k + 1] <= hi
  BY DEF Found, Lie
<1>3. \A k \in 1..n : c.descs[k] \in Descriptors
  BY <1>1
<1> HIDE DEF n, b, w, hi
<1>4. \A k \in 1..(n + 1) : at[k] \in Places /\ at[k] \in Nat
  BY <1>2 DEF Places
<1>5. \A k \in 1..n : k \in 1..(n + 1) /\ k + 1 \in 1..(n + 1)
  BY <1>1
<1>6. \A k \in 1..n : After(b, at[k]) = at[k + 1]
  <2> SUFFICES ASSUME NEW k \in 1..n PROVE After(b, at[k]) = at[k + 1]
    OBVIOUS
  <2>1. at[k] \in Places /\ c.descs[k] \in Descriptors /\ Has(b, at[k], DescriptorCells(c.descs[k]))
    BY <1>2, <1>3, <1>4, <1>5
  <2>2. After(b, at[k]) = at[k] + Len(DescriptorCells(c.descs[k]))
    BY <1>1, <2>1, DescriptorSeen
  <2>3. QED BY <1>2, <2>2
<1>7. \A k \in 1..n : at[k] + 2 <= hi
  <2> SUFFICES ASSUME NEW k \in 1..n PROVE at[k] + 2 <= hi
    OBVIOUS
  <2>1. at[k] \in Nat /\ at[k + 1] \in Nat /\ at[k + 1] >= at[k] + 2 /\ at[k + 1] <= hi
    BY <1>2, <1>4, <1>5
  <2>2. QED BY <1>1, <2>1
<1>8. \A k \in 1..(n + 1) : at[k] >= w + 1
  <2> DEFINE S == {m \in Nat : m <= n => at[m + 1] >= w + 1}
  <2>1. 0 \in S
    <3>1. 0 + 1 = 1 /\ w + 1 >= w + 1
      BY <1>1
    <3>2. QED BY <1>2, <3>1
  <2>2. ASSUME NEW m \in S PROVE m + 1 \in S
    <3> SUFFICES ASSUME m + 1 <= n PROVE at[m + 1 + 1] >= w + 1
      OBVIOUS
    <3>1. m + 1 \in 1..n /\ at[m + 1] >= w + 1
      BY <1>1
    <3>2. at[m + 1] \in Nat /\ at[m + 1 + 1] \in Nat /\ at[m + 1 + 1] >= at[m + 1] + 2
      BY <1>2, <1>4, <1>5, <3>1
    <3>3. QED BY <1>1, <3>1, <3>2
  <2>3. S \in SUBSET Nat
    OBVIOUS
  <2>4. S = Nat
    <3> HIDE DEF S
    <3>1. QED BY <2>1, <2>2, <2>3, Induction
  <2>5. ASSUME NEW k \in 1..(n + 1) PROVE at[k] >= w + 1
    <3>1. k - 1 \in S /\ k - 1 <= n /\ (k - 1) + 1 = k
      <4> HIDE DEF S
      <4>1. QED BY <1>1, <2>4
    <3>2. QED BY <3>1
  <2>6. QED BY <2>5
<1>9. QED BY <1>1, <1>2, <1>3, <1>4, <1>6, <1>7, <1>8 DEF n, b, w, hi

LEMMA ListFound ==
  \A a, x : \A m \in Nat : Grows(a, m, Nat, x) => a[1] = x
  BY ListBuilt

\* locate_loop finds the loop, and the walk its descriptors.
LEMMA LoopRead ==
  ASSUME NEW c \in Cues, ~c.enc, NEW at, Found(c, at)
  PROVE  /\ LocateLoop(Encode(c)) = LoopOf(c) /\ LoopOf(c) # NoLoop
         /\ Starts(BodyOf(c), LoopOf(c)) = [k \in 1..Len(c.descs) |-> at[k]]
         /\ ~Overruns(BodyOf(c), LoopOf(c), [k \in 1..Len(c.descs) |-> at[k]])
<1> DEFINE n == Len(c.descs)
           b == BodyOf(c)
           w == WordAt(c)
           hi == LoopEnd(c)
           s == Encode(c)
           L == LoopOf(c)
           starts == [k \in 1..n |-> at[k]]
<1>1. b \in Cells /\ CueLies(b, c) /\ s.type = TypeOf(c.cmd) /\ s.body = b /\ IsPlain(s)
  BY EncodeForm, BodyForm DEF IsPlain
<1>2. ParseCommand(s).next = w
  BY <1>1, CueTyped, CommandRead DEF CueLies, WordAt
<1>3. /\ w \in Places /\ w \in Nat /\ w >= 1 /\ hi \in Nat /\ hi = w + 1 + Len(LoopCells(c))
      /\ hi <= Len(b) + 1 /\ w < hi /\ Len(b) \in Nat
  <2>1. /\ w \in Places /\ hi \in Places /\ hi = w + 1 + Len(LoopCells(c))
        /\ hi <= Len(b) + 1 /\ w < hi
    BY FoundExists
  <2>2. Len(b) \in Nat
    BY BodyForm
  <2> HIDE DEF w, hi, b
  <2>3. QED BY <2>1, <2>2 DEF Places
<1>4. At(b, w) % LoopMod = Len(LoopCells(c))
  <2>1. At(b, w) = LoopWord(c)
    BY <1>1, <1>3, HasAt DEF CueLies
  <2>2. QED BY <2>1, CueTyped
<1>5. LocateLoop(s) = L
  <2>1. LocateLoop(s) = LoopAt(b, w)
    BY <1>1, <1>2 DEF LocateLoop
  <2>2. w + 1 + (At(b, w) % LoopMod) = hi
    BY <1>3, <1>4
  <2> HIDE DEF w, hi, b, s, L
  <2>3. w <= Len(b)
    BY <1>3
  <2>4. LoopAt(b, w) = [word |-> w, lo |-> w + 1, hi |-> hi]
    BY <1>3, <2>2, <2>3 DEF LoopAt
  <2>5. QED BY <2>1, <2>4 DEF L, LoopOf, w, hi
<1>6. L # NoLoop
  <2>1. L.word = w /\ NoLoop.word = 0
    BY DEF LoopOf, NoLoop
  <2> HIDE DEF L, w
  <2>2. QED BY <1>3, <2>1
<1>7. /\ n \in Nat
      /\ \A k \in 1..(n + 1) : at[k] \in Nat
      /\ \A k \in 1..n : After(b, at[k]) = at[k + 1] /\ at[k] + 2 <= hi /\ at[k + 1] <= hi
  BY FoundPlaces
<1>8. at[1] = w + 1 /\ at[n + 1] = hi
  BY DEF Found
<1>9. L.hi = hi /\ L.lo = w + 1
  BY DEF LoopOf
<1> HIDE DEF n, b, w, hi, L
<1>10. ~Overruns(b, L, starts)
  <2>1. \A k \in 1..n : ~(After(b, starts[k]) > L.hi)
    <3> SUFFICES ASSUME NEW k \in 1..n PROVE ~(After(b, starts[k]) > L.hi)
      OBVIOUS
    <3>1. k + 1 \in 1..(n + 1)
      BY <1>7
    <3>2. starts[k] = at[k] /\ After(b, at[k]) = at[k + 1] /\ at[k + 1] <= hi /\ at[k + 1] \in Nat
      BY <1>7, <3>1
    <3>3. QED BY <1>3, <1>9, <3>2
  <2>2. DOMAIN starts = 1..n
    OBVIOUS
  <2> HIDE DEF starts
  <2>3. QED BY <2>1, <2>2 DEF Overruns
<1> DEFINE go == {i \in Nat : i + 2 <= L.hi}
           place == [i \in Nat |-> i]
           next == [i \in Nat |-> After(b, i)]
<1>11. PICK f : Descent(f, go, place, next) /\ Starts(b, L) = f[L.lo]
  <2> HIDE DEF go, place, next
  <2>1. \E f : /\ Descent(f, {i \in Nat : i + 2 <= L.hi}, [i \in Nat |-> i],
                         [i \in Nat |-> After(b, i)])
               /\ Starts(b, L) = f[L.lo]
    BY <1>1, <1>3, <1>9, StartsDescent
  <2>2. QED BY <2>1 DEF go, place, next
<1>12. \A i \in Nat : /\ i \notin go => f[i] = <<>>
                      /\ i \in go => f[i] = <<i>> \o f[After(b, i)]
  <2> SUFFICES ASSUME NEW i \in Nat PROVE /\ i \notin go => f[i] = <<>>
                                          /\ i \in go => f[i] = <<i>> \o f[After(b, i)]
    OBVIOUS
  <2>1. /\ i \notin go => f[i] = <<>>
        /\ i \in go => f[i] = <<place[i]>> \o f[next[i]]
    <3> HIDE DEF go, place, next
    <3>1. QED BY <1>11 DEF Descent
  <2>2. place[i] = i /\ next[i] = After(b, i)
    OBVIOUS
  <2> HIDE DEF go, place, next
  <2>3. QED BY <2>1, <2>2
<1> DEFINE tails == [k \in 1..(n + 1) |-> f[at[k]]]
<1>13. Grows(tails, n, Nat, starts)
  <2>1. tails[n + 1] = <<>>
    <3>1. n + 1 \in 1..(n + 1)
      BY <1>7
    <3>2. hi \notin go
      BY <1>3, <1>9
    <3> HIDE DEF go
    <3>3. f[hi] = <<>>
      BY <1>3, <1>12, <3>2
    <3>4. QED BY <1>8, <3>1, <3>3
  <2>2. ASSUME NEW k \in 1..n PROVE tails[k] = <<starts[k]>> \o tails[k + 1]
    <3>1. k \in 1..(n + 1) /\ k + 1 \in 1..(n + 1)
      BY <1>7
    <3>2. at[k] \in go
      BY <1>7, <1>9, <3>1
    <3> HIDE DEF go
    <3>3. f[at[k]] = <<at[k]>> \o f[at[k + 1]]
      BY <1>7, <1>12, <3>1, <3>2
    <3>4. QED BY <3>1, <3>3
  <2>3. \A k \in 1..n : k \in 1..(n + 1)
    BY <1>7
  <2>4. starts \in [1..n -> Nat]
    BY <1>7, <2>3
  <2> HIDE DEF tails, starts
  <2>5. QED BY <2>1, <2>2, <2>4 DEF Grows
<1>15. tails[1] = starts
  <2> HIDE DEF tails, starts
  <2>1. QED BY <1>7, <1>13, ListFound, Zenon
<1>16. tails[1] = f[L.lo]
  <2>1. 1 \in 1..(n + 1)
    BY <1>7
  <2>2. QED BY <1>8, <1>9, <2>1
<1> HIDE DEF tails, starts
<1>17. Starts(b, L) = starts
  BY <1>11, <1>15, <1>16
<1>18. QED BY <1>5, <1>6, <1>10, <1>17 DEF b, L, n, starts, s

\* A descriptor with another UPID.
Renamed(d, kind, bytes) == [d EXCEPT !.upidType = kind, !.upid = bytes]

LEMMA RenamedTyped ==
  ASSUME NEW d \in Segmentations, NEW kind \in Nat, NEW bytes \in Cells
  PROVE  /\ Renamed(d, kind, bytes) \in Segmentations
         /\ Components(Renamed(d, kind, bytes)) = Components(d)
         /\ SegFlags(Renamed(d, kind, bytes)) = SegFlags(d)
         /\ UpidAt(Renamed(d, kind, bytes)) = UpidAt(d)
         /\ TypeAt(Renamed(d, kind, bytes)) = UpidAt(d) + 2 + Len(bytes)
<1> DEFINE e == Renamed(d, kind, bytes)
<1>1. e \in Segmentations
  BY DEF Segmentations, Cells, Renamed
<1>2. /\ e.components = d.components /\ e.dur = d.dur /\ e.limits = d.limits
      /\ e.upid = bytes
  BY DEF Segmentations, Renamed
<1> HIDE DEF e
<1>3. Components(e) = Components(d)
  BY <1>2 DEF Components
<1>4. QED BY <1>1, <1>2, <1>3 DEF SegFlags, UpidAt, TypeAt, e

LEMMA Regrouped ==
  \A one, two, three \in Cells : one \o (two \o three) = (one \o two) \o three
<1> SUFFICES ASSUME NEW one \in Cells, NEW two \in Cells, NEW three \in Cells
             PROVE  one \o (two \o three) = (one \o two) \o three
  OBVIOUS
<1> DEFINE C == Nat
<1>1. one \in Seq(C) /\ two \in Seq(C) /\ three \in Seq(C)
  BY DEF Cells
<1> HIDE DEF C
<1>2. QED BY <1>1, ConcatAssociative

\* rebuild_with_upid writes the cells of that descriptor.
LEMMA UpidWritten ==
  ASSUME NEW b \in Cells, NEW i \in Places, NEW d \in Segmentations, SegmentationLies(b, i, d),
         NEW kind \in Nat, NEW bytes \in Cells
  PROVE  WithBytes(b, i, i + UpidAt(d), kind, bytes) = DescriptorCells(Renamed(d, kind, bytes))
<1> DEFINE e == Renamed(d, kind, bytes)
           u == UpidAt(d)
           t == TypeAt(d)
           r == Len(d.rest)
           m == Len(d.upid)
           l == Len(bytes)
           n == Len(Components(d))
           q == Len(d.dur)
           s1 == <<d.id, 0, SegFlags(d)>>
           s2 == Components(d)
           s3 == d.dur
           s4 == <<kind, l>>
           s6 == <<d.typeId>>
           s7 == d.rest
           j == i + u
           end == After(b, i)
           rest == SubSeq(b, j + 2 + b[j + 1], end - 1)
           front == SubSeq(b, i + 2, j - 1)
<1>1. /\ i \in Nat /\ i >= 1 /\ n \in Nat /\ u \in Nat /\ t \in Nat /\ r \in Nat /\ m \in Nat
      /\ q \in Nat /\ l \in Nat /\ t = u + 2 + m /\ u = 5 + n + q
  <2>1. n \in Nat /\ u \in Nat /\ t \in Nat /\ r \in Nat /\ m \in Nat /\ q \in Nat
    BY SegmentationTyped, LenProperties DEF Cells
  <2>2. t = u + 2 + m /\ u = 5 + n + q /\ l \in Nat
    BY LenProperties DEF TypeAt, UpidAt, Cells
  <2> HIDE DEF n, u, t, r, m, q, l
  <2>3. QED BY <2>1, <2>2 DEF Places
<1>2. /\ s1 \in Cells /\ s2 \in Cells /\ s3 \in Cells /\ s4 \in Cells /\ s6 \in Cells
      /\ s7 \in Cells /\ Len(s1) = 3 /\ Len(s4) = 2 /\ Len(s6) = 1
  <2> DEFINE f == SegFlags(d)
  <2>1. s2 \in Cells /\ s3 \in Cells /\ s7 \in Cells /\ d.id \in Nat /\ d.typeId \in Nat
          /\ f \in Nat
    BY SegmentationTyped
  <2>2. s1 = <<d.id, 0, f>>
    OBVIOUS
  <2> HIDE DEF f, l, s1
  <2>3. <<d.id, 0, f>> \in Cells /\ Len(<<d.id, 0, f>>) = 3
    BY <2>1 DEF Cells
  <2>4. s4 \in Cells /\ s6 \in Cells
    BY <1>1, <2>1 DEF Cells
  <2>5. Len(s4) = 2 /\ Len(s6) = 1
    OBVIOUS
  <2>6. QED BY <2>1, <2>2, <2>3, <2>4, <2>5
<1>3. /\ Has(b, i + 2, s1) /\ Has(b, i + 5, s2) /\ Has(b, i + 5 + n, s3)
      /\ Has(b, i + t, s6) /\ Has(b, i + t + 1, s7)
  BY DEF SegmentationLies
<1>4. b[j + 1] = m /\ end = i + t + 1 + r
  <2>1. j + 1 \in DOMAIN b /\ At(b, j + 1) = m /\ end = i + t + 1 + r
    BY SegmentationCells
  <2>2. QED BY <2>1 DEF At
<1> HIDE DEF end
<1>5. /\ i + 2 \in Places /\ i + 5 \in Places /\ i + 5 + n \in Places /\ i + t \in Places
      /\ i + 2 + 3 = i + 5 /\ j + 2 + m = i + t /\ end - 1 = i + t + (1 + r) - 1
      /\ j - 1 = i + 2 + (3 + n + q) - 1 /\ i + 2 + (3 + n) = i + 5 + n
  <2> HIDE DEF n, u, t, r, m, q, l
  <2>1. QED BY <1>1, <1>4 DEF Places
<1>5a. n = Len(s2) /\ q = Len(s3) /\ r = Len(s7) /\ m = Len(d.upid)
  OBVIOUS
<1> HIDE DEF s1, s2, s3, s4, s6, s7, n, q, r
<1>6. rest = s6 \o s7
  <2>1. Has(b, i + t, s6 \o s7)
    BY <1>2, <1>3, <1>5, HasConcat
  <2>2. s6 \o s7 \in Cells /\ Len(s6 \o s7) = 1 + r
    <3>1. s6 \o s7 \in Cells /\ Len(s6 \o s7) = Len(s6) + Len(s7)
      BY <1>2, Joined
    <3>2. Len(s6) + Len(s7) = 1 + r
      BY <1>2, <1>5a
    <3>3. QED BY <3>1, <3>2, Zenon
  <2>3. SubSeq(b, i + t, i + t + Len(s6 \o s7) - 1) = s6 \o s7
    BY <1>5, <2>1, <2>2, HasCut
  <2>4. rest = SubSeq(b, i + t, i + t + (1 + r) - 1)
    BY <1>4, <1>5
  <2>5. QED BY <2>2, <2>3, <2>4
<1>7. front = s1 \o s2 \o s3 /\ s1 \o s2 \o s3 \in Cells
  <2> DEFINE p2 == s1 \o s2
             p3 == p2 \o s3
  <2>1. p2 \in Cells /\ Len(p2) = 3 + n
    <3>1. s1 \o s2 \in Cells /\ Len(s1 \o s2) = Len(s1) + Len(s2)
      BY <1>2, Joined
    <3>2. Len(s1) + Len(s2) = 3 + n
      BY <1>2, <1>5a
    <3>3. QED BY <3>1, <3>2, Zenon
  <2>2. Has(b, i + 2, p2)
    BY <1>2, <1>3, <1>5, HasConcat
  <2> HIDE DEF p2
  <2>3. p3 \in Cells /\ Len(p3) = 3 + n + q
    <3>1. p2 \o s3 \in Cells /\ Len(p2 \o s3) = Len(p2) + Len(s3)
      BY <1>2, <2>1, Joined
    <3>2. Len(p2) + Len(s3) = 3 + n + q
      BY <1>5a, <2>1
    <3>3. QED BY <3>1, <3>2, Zenon
  <2>4. Has(b, i + 2, p3)
    BY <1>2, <1>3, <1>5, <2>1, <2>2, HasConcat
  <2> HIDE DEF p3
  <2>5. SubSeq(b, i + 2, i + 2 + Len(p3) - 1) = p3
    BY <1>5, <2>3, <2>4, HasCut
  <2>6. front = p3
    BY <1>5, <2>3, <2>5
  <2>7. QED BY <2>3, <2>6 DEF p2, p3
<1> DEFINE head == <<SegTag, u + l + (1 + r)>>
<1>8. WithBytes(b, i, j, kind, bytes)
        = head \o (s1 \o s2 \o s3) \o s4 \o bytes \o (s6 \o s7)
  <2>1. WithBytes(b, i, j, kind, bytes)
          = <<SegTag, j - i + Len(bytes) + Len(rest)>> \o front \o s4 \o bytes \o rest
    BY DEF WithBytes, s4, end
  <2>2. Len(rest) = 1 + r
    <3>1. Len(s6 \o s7) = 1 + r
      <4>1. Len(s6 \o s7) = Len(s6) + Len(s7)
        BY <1>2, Joined
      <4>2. Len(s6) + Len(s7) = 1 + r
        BY <1>2, <1>5a
      <4>3. QED BY <4>1, <4>2, Zenon
    <3>2. QED BY <1>6, <3>1
  <2>3. j - i + l + (1 + r) = u + l + (1 + r)
    <3> HIDE DEF n, u, t, r, m, q, l
    <3>1. QED BY <1>1
  <2> HIDE DEF rest, front, j, u
  <2>4. QED BY <1>6, <1>7, <2>1, <2>2, <2>3
<1> DEFINE body == s1 \o s2 \o s3 \o s4 \o bytes \o s6 \o s7
<1>9. DescriptorCells(e) = <<SegTag, Len(body)>> \o body
  <2>1. e \in Segmentations /\ Components(e) = Components(d) /\ SegFlags(e) = SegFlags(d)
    BY RenamedTyped
  <2>2. /\ e.tag = SegTag /\ e.cancel = FALSE /\ e.id = d.id /\ e.dur = d.dur
        /\ e.upidType = kind /\ e.upid = bytes /\ e.typeId = d.typeId /\ e.rest = d.rest
    BY DEF Renamed, Segmentations
  <2>3. DescriptorCells(e) =
          LET x == <<e.id, 0, SegFlags(e)>> \o Components(e) \o e.dur
                     \o <<e.upidType, Len(e.upid)>> \o e.upid \o <<e.typeId>> \o e.rest
          IN <<SegTag, Len(x)>> \o x
    <3> HIDE DEF e
    <3>1. QED BY <2>2 DEF DescriptorCells, Components, SegFlags
  <2> HIDE DEF e
  <2>4. <<e.id, 0, SegFlags(e)>> \o Components(e) \o e.dur
          \o <<e.upidType, Len(e.upid)>> \o e.upid \o <<e.typeId>> \o e.rest = body
    BY <2>1, <2>2, Zenon DEF s1, s2, s3, s4, s6, s7, l
  <2>5. QED BY <2>3, <2>4, Zenon
<1>10. Len(body) = u + l + (1 + r)
  <2>1. Len(DescriptorCells(e)) = TypeAt(e) + 1 + Len(e.rest) /\ e.rest = d.rest
    <3>1. e \in Segmentations
      BY RenamedTyped
    <3>2. e.rest = d.rest
      BY DEF Renamed, Segmentations
    <3> HIDE DEF e
    <3>3. QED BY <3>1, <3>2, SegmentationForm
  <2>2. TypeAt(e) = u + 2 + l
    BY RenamedTyped
  <2> DEFINE p3 == s1 \o s2 \o s3
             p4 == p3 \o s4
             p5 == p4 \o bytes
             p6 == p5 \o s6
             p7 == p6 \o s7
  <2>3. body = p7
    OBVIOUS
  <2>4. p3 \in Cells
    BY <1>7
  <2> HIDE DEF p3
  <2>5. p4 \in Cells
    BY <1>2, <2>4, Joined
  <2> HIDE DEF p4
  <2>6. p5 \in Cells
    BY <2>5, Joined
  <2> HIDE DEF p5
  <2>7. p6 \in Cells
    BY <1>2, <2>6, Joined
  <2> HIDE DEF p6
  <2>8. p7 \in Cells
    BY <1>2, <2>7, Joined
  <2> HIDE DEF body, p7, e
  <2>9. SegTag \in Nat
    BY DEF SegTag
  <2>10. Len(DescriptorCells(e)) = Len(body) + 2 /\ Len(body) \in Nat
    BY <1>9, <2>3, <2>8, <2>9, Headed
  <2> DEFINE lb == Len(body)
             ld == Len(DescriptorCells(e))
             te == TypeAt(e)
  <2>11. ld = lb + 2 /\ lb \in Nat /\ te = u + 2 + l
    BY <2>2, <2>10
  <2>11a. ld = te + 1 + r
    BY <1>5a, <2>1, Zenon DEF s7
  <2> HIDE DEF lb, ld, te, u, r, l, n, t, q, m
  <2>12. lb = u + l + (1 + r)
    BY <1>1, <2>11, <2>11a
  <2>13. QED BY <2>12 DEF lb
<1>11. head \o (s1 \o s2 \o s3) \o s4 \o bytes \o (s6 \o s7) = head \o body
  <2> DEFINE p3 == s1 \o s2 \o s3
             p4 == p3 \o s4
             p5 == p4 \o bytes
             p6 == p5 \o s6
             h4 == head \o p3
             h5 == h4 \o s4
             h6 == h5 \o bytes
  <2>0. head \in Cells
    <3> HIDE DEF n, u, t, r, m, q, l
    <3>1. u + l + (1 + r) \in Nat
      BY <1>1
    <3>2. QED BY <3>1 DEF SegTag, Cells
  <2>1. p3 \in Cells
    BY <1>7
  <2> HIDE DEF p3, head
  <2>2. p4 \in Cells /\ head \o p4 = h5
    <3>1. p4 \in Cells
      BY <1>2, <2>1, Joined
    <3>2. s4 \in Cells
      BY <1>2
    <3>2a. head \o (p3 \o s4) = (head \o p3) \o s4
      BY <2>0, <2>1, <3>2, Regrouped, ZenonT(30)
    <3>3. QED BY <3>1, <3>2a
  <2>3. p5 \in Cells /\ head \o p5 = h6
    <3>1. p5 \in Cells
      BY <2>2, Joined
    <3>2. head \o p5 = (head \o p4) \o bytes
      <4> HIDE DEF p4
      <4>1. QED BY <2>0, <2>2, Regrouped, Zenon
    <3>3. QED BY <2>2, <3>1, <3>2
  <2> HIDE DEF p4, p5, h4, h5, h6
  <2>3a. s6 \in Cells /\ s7 \in Cells
    BY <1>2
  <2>4. p6 \in Cells /\ head \o p6 = h6 \o s6
    <3>1. p6 \in Cells
      BY <1>2, <2>3, Joined
    <3>2. head \o p6 = (head \o p5) \o s6
      BY <2>0, <2>3, <2>3a, Regrouped, ZenonT(30)
    <3>3. QED BY <2>3, <3>1, <3>2
  <2>5. head \o (p6 \o s7) = (head \o p6) \o s7
    <3> HIDE DEF p6
    <3>1. QED BY <2>3a, <2>0, <2>4, Regrouped, ZenonT(30)
  <2>6. h6 \in Cells
    <3>1. head \o p5 \in Cells
      BY <2>0, <2>3, Joined
    <3>2. QED BY <2>3, <3>1
  <2>7. (h6 \o s6) \o s7 = h6 \o (s6 \o s7)
    BY <2>3a, <2>6, Regrouped, Zenon
  <2>8. head \o (p6 \o s7) = h6 \o (s6 \o s7)
    BY <2>4, <2>5, <2>7
  <2>9. body = p6 \o s7
    BY Zenon DEF p6, p5, p4, p3
  <2>10. head \o p3 \o s4 \o bytes \o (s6 \o s7) = h6 \o (s6 \o s7)
    BY Zenon DEF h4, h5, h6
  <2>11. QED BY <2>8, <2>9, <2>10, Zenon DEF p3
<1> HIDE DEF body, e
<1>12. QED BY <1>8, <1>9, <1>10, <1>11 DEF e, j

\* The UPID a descriptor is given, if there is room for its length.
UpidGiven(d, type, v) == UpidBytes(Some(type, d.upidType), v)

IsRenamed(d, type, v) == IsLive(d) /\ Len(UpidGiven(d, type, v)) < LenMod

WithGiven(d, type, v) ==
    IF IsRenamed(d, type, v) THEN Renamed(d, Some(type, d.upidType), UpidGiven(d, type, v)) ELSE d

\* The walk comes to a UPID that panics.
GivenPanics(d, type, v) == IsLive(d) /\ UpidPanics(Some(type, d.upidType), v)

LEMMA DescriptorRewritten ==
  ASSUME NEW b \in Cells, NEW i \in Places, NEW d \in Descriptors,
         Has(b, i, DescriptorCells(d)), NEW type \in Maybe(Nat), NEW v,
         \A k \in Nat : UpidBytes(k, v) \in Cells
  PROVE  /\ WithGiven(d, type, v) \in Descriptors
         /\ RewriteDescriptor(b, i, type, v) = DescriptorCells(WithGiven(d, type, v))
         /\ TakesUpid(b, i, type, v) <=> IsRenamed(d, type, v)
         /\ UpidCell(b, i) # 0 => IsLive(d) /\ b[UpidCell(b, i)] = d.upidType
<1> DEFINE j == UpidCell(b, i)
           m == Len(DescriptorCells(d))
<1>1. After(b, i) = i + m
  BY DescriptorSeen
<1>2. ASSUME IsLive(d)
      PROVE  /\ d \in Segmentations /\ SegmentationLies(b, i, d) /\ j = i + UpidAt(d) /\ j # 0
             /\ b[j] = d.upidType /\ NewUpid(b, i, type, v) = UpidGiven(d, type, v)
             /\ d.upidType \in Nat /\ Some(type, d.upidType) \in Nat
  <2>1. d \in Segmentations /\ SegmentationLies(b, i, d) /\ j = i + UpidAt(d) /\ j # 0
    BY <1>2, DescriptorSeen
  <2>2. b[j] = d.upidType
    <3>1. i + UpidAt(d) \in DOMAIN b /\ At(b, i + UpidAt(d)) = d.upidType
      BY <2>1, SegmentationCells
    <3> HIDE DEF j
    <3>2. QED BY <2>1, <3>1 DEF At
  <2>3. d.upidType \in Nat
    BY <2>1, SegmentationTyped
  <2>4. Some(type, d.upidType) \in Nat
    <3> DEFINE C == Nat
    <3>1. type \in Maybe(C) /\ d.upidType \in C
      BY <2>3
    <3> HIDE DEF C
    <3>2. Some(type, d.upidType) \in C
      BY <3>1, Given
    <3>3. QED BY <3>2 DEF C
  <2>5. NewUpid(b, i, type, v) = UpidBytes(Some(type, b[j]), v)
    BY DEF NewUpid
  <2> HIDE DEF j
  <2>6. QED BY <2>1, <2>2, <2>3, <2>4, <2>5 DEF UpidGiven
<1>3. ~IsLive(d) => j = 0
  BY DescriptorSeen
<1>4. TakesUpid(b, i, type, v) <=> IsRenamed(d, type, v)
  <2>1. TakesUpid(b, i, type, v) <=> j # 0 /\ Len(NewUpid(b, i, type, v)) < LenMod
    BY DEF TakesUpid
  <2> HIDE DEF j
  <2>2. CASE IsLive(d)
    BY <1>2, <2>1, <2>2 DEF IsRenamed
  <2>3. CASE ~IsLive(d)
    BY <1>3, <2>1, <2>3 DEF IsRenamed
  <2>4. QED BY <2>2, <2>3
<1>4a. UpidCell(b, i) # 0 => IsLive(d) /\ b[UpidCell(b, i)] = d.upidType
  BY <1>2, <1>3
<1>5. CASE IsRenamed(d, type, v)
  <2> DEFINE kind == Some(type, d.upidType)
             bytes == UpidGiven(d, type, v)
  <2>1. IsLive(d)
    BY <1>5 DEF IsRenamed
  <2>2. kind \in Nat /\ bytes \in Cells /\ d \in Segmentations
    BY <1>2, <2>1 DEF UpidGiven
  <2>3. RewriteDescriptor(b, i, type, v) = WithBytes(b, i, j, Some(type, b[j]), NewUpid(b, i, type, v))
    BY <1>4, <1>5 DEF RewriteDescriptor
  <2>4. WithGiven(d, type, v) = Renamed(d, kind, bytes)
    BY <1>5 DEF WithGiven
  <2> HIDE DEF j
  <2>5. RewriteDescriptor(b, i, type, v) = WithBytes(b, i, i + UpidAt(d), kind, bytes)
    BY <1>2, <2>1, <2>3
  <2> HIDE DEF kind, bytes
  <2>6. WithBytes(b, i, i + UpidAt(d), kind, bytes) = DescriptorCells(Renamed(d, kind, bytes))
    BY <1>2, <2>1, <2>2, UpidWritten
  <2>7. Renamed(d, kind, bytes) \in Segmentations
    BY <2>2, RenamedTyped
  <2>8. QED BY <1>4, <1>4a, <2>4, <2>5, <2>6, <2>7 DEF Descriptors
<1>6. CASE ~IsRenamed(d, type, v)
  <2>1. RewriteDescriptor(b, i, type, v) = SubSeq(b, i, After(b, i) - 1)
    BY <1>4, <1>6 DEF RewriteDescriptor
  <2>2. DescriptorCells(d) \in Cells
    BY DescriptorForm
  <2>3. SubSeq(b, i, i + m - 1) = DescriptorCells(d)
    BY <2>2, HasCut
  <2> HIDE DEF m
  <2>4. WithGiven(d, type, v) = d
    BY <1>6 DEF WithGiven
  <2>5. RewriteDescriptor(b, i, type, v) = DescriptorCells(d)
    <3> DEFINE x == After(b, i) - 1
               y == i + m - 1
    <3>1. x = y
      <4>1. i \in Nat /\ m \in Nat
        BY DescriptorForm DEF Places, m
      <4>2. QED BY <1>1, <4>1
    <3>2. RewriteDescriptor(b, i, type, v) = SubSeq(b, i, x)
      BY <2>1, Zenon
    <3>3. SubSeq(b, i, y) = DescriptorCells(d)
      BY <2>3, Zenon
    <3> HIDE DEF x, y
    <3>4. QED BY <3>1, <3>2, <3>3, Zenon
  <2>6. WithGiven(d, type, v) \in Descriptors
    BY <2>4
  <2>7. RewriteDescriptor(b, i, type, v) = DescriptorCells(WithGiven(d, type, v))
    BY <2>4, <2>5
  <2>8. QED BY <1>4, <1>4a, <2>6, <2>7
<1>7. QED
  BY <1>5, <1>6

\* fix_section_length and the CRC, or the CRC alone: a section with another body.
Resized(s, body) == Sealed([s EXCEPT !.body = body, !.secLen = (Fixed + Len(body)) % SectionMod])

Resealed(s, body) == Sealed([s EXCEPT !.body = body])

LEMMA Reframed ==
  ASSUME NEW enc, NEW type, NEW cmdLen, NEW old, NEW body
  PROVE  /\ Resized(Frame(enc, type, cmdLen, old), body) = Frame(enc, type, cmdLen, body)
         /\ Len(body) = Len(old) =>
              Resealed(Frame(enc, type, cmdLen, old), body) = Frame(enc, type, cmdLen, body)
<1> DEFINE secLen == (Fixed + Len(body)) % SectionMod
           oldLen == (Fixed + Len(old)) % SectionMod
           oldCrc == <<enc, oldLen, cmdLen, type, old>>
           crc == <<enc, secLen, cmdLen, type, body>>
           s == Frame(enc, type, cmdLen, old)
           new == [table |-> 252, enc |-> enc, type |-> type, body |-> body, secLen |-> secLen,
                   cmdLen |-> cmdLen, crc |-> crc]
<1>1. s = [table |-> 252, enc |-> enc, type |-> type, body |-> old, secLen |-> oldLen,
           cmdLen |-> cmdLen, crc |-> oldCrc]
  BY DEF Frame
<1>2. Frame(enc, type, cmdLen, body) = new
  BY DEF Frame
<1>3. Len(body) = Len(old) => oldLen = secLen
  OBVIOUS
<1> HIDE DEF secLen, oldLen, oldCrc, s
<1>4. [s EXCEPT !.body = body, !.secLen = secLen]
        = [table |-> 252, enc |-> enc, type |-> type, body |-> body, secLen |-> secLen,
           cmdLen |-> cmdLen, crc |-> oldCrc]
  <2> DEFINE mid == [s EXCEPT !.body = body]
  <2>1. [s EXCEPT !.body = body, !.secLen = secLen] = [mid EXCEPT !.secLen = secLen]
    OBVIOUS
  <2>2. mid = [table |-> 252, enc |-> enc, type |-> type, body |-> body, secLen |-> oldLen,
               cmdLen |-> cmdLen, crc |-> oldCrc]
    BY <1>1
  <2> HIDE DEF mid
  <2>3. QED BY <2>1, <2>2
<1>5. [s EXCEPT !.body = body]
        = [table |-> 252, enc |-> enc, type |-> type, body |-> body, secLen |-> oldLen,
           cmdLen |-> cmdLen, crc |-> oldCrc]
  BY <1>1
<1>6. Sealed([table |-> 252, enc |-> enc, type |-> type, body |-> body, secLen |-> secLen,
              cmdLen |-> cmdLen, crc |-> oldCrc]) = new
  BY DEF Sealed, Covered
<1> HIDE DEF new
<1>7. Sealed([s EXCEPT !.body = body, !.secLen = secLen]) = new
  BY <1>4, <1>6
<1>8. Len(body) = Len(old) => Sealed([s EXCEPT !.body = body]) = new
  BY <1>3, <1>5, <1>6
<1>9. /\ Resized(s, body) = Sealed([s EXCEPT !.body = body, !.secLen = secLen])
      /\ Resealed(s, body) = Sealed([s EXCEPT !.body = body])
  BY Zenon DEF Resized, Resealed, secLen
<1>10. QED BY <1>2, <1>7, <1>8, <1>9 DEF s

\* replace_loop: the section with the loop of another cue.
LEMMA LoopReplaced ==
  ASSUME NEW c \in Cues, NEW d \in Cues, d.enc = c.enc, d.cmd = c.cmd, d.pad = c.pad
  PROVE  WithLoop(Encode(c), LoopOf(c), LoopCells(d)) = Encode(d)
<1> DEFINE s == Encode(c)
           b == BodyOf(c)
           w == WordAt(c)
           hi == LoopEnd(c)
           L == LoopOf(c)
           loop == LoopCells(d)
           command == CommandCells(c.cmd)
           tail == c.pad[2]
           word == (b[w] \div LoopMod) * LoopMod + Len(loop)
           one == <<word>>
           body == SubSeq(b, 1, w - 1) \o one \o loop \o SubSeq(b, hi, Len(b))
           cmdLen == Len(command)
           p == Len(tail)
<1>1. s = Frame(c.enc, TypeOf(c.cmd), cmdLen, b) /\ s.body = b
  BY EncodeForm
<1>2. Encode(d) = Frame(c.enc, TypeOf(c.cmd), cmdLen, BodyOf(d))
  BY EncodeForm
<1>3. /\ b \in Cells /\ CueLies(b, c) /\ command \in Cells /\ tail \in Cells /\ loop \in Cells
      /\ cmdLen \in Nat /\ p \in Nat /\ w \in Nat /\ w = cmdLen + 1 /\ hi \in Places
      /\ w \in Places /\ 1 \in Places /\ hi \in Nat /\ Len(b) \in Nat
  <2>1. command \in Cells /\ tail \in Cells /\ loop \in Cells /\ cmdLen \in Nat /\ w \in Nat
          /\ w = cmdLen + 1
    BY CueTyped, CommandTyped DEF WordAt
  <2>2. hi \in Places /\ w \in Places
    BY FoundExists
  <2>3. p \in Nat
    BY <2>1, LenProperties DEF Cells
  <2>4. 1 \in Places /\ hi \in Nat
    BY <2>2 DEF Places
  <2>5. QED BY <2>1, <2>2, <2>3, <2>4, BodyForm
<1>4. SubSeq(b, 1, w - 1) = command
  <2>1. Has(b, 1, command)
    BY <1>3 DEF CueLies
  <2>2. SubSeq(b, 1, 1 + Len(command) - 1) = command
    <3> HIDE DEF b, command
    <3>1. QED BY <1>3, <2>1, HasCut
  <2>3. 1 + Len(command) - 1 = w - 1
    <3> HIDE DEF w
    <3>1. QED BY <1>3
  <2>4. QED BY <2>2, <2>3
<1>5. SubSeq(b, hi, Len(b)) = tail
  <2>1. Has(b, hi, tail) /\ Len(b) = hi + p - 1
    BY <1>3 DEF CueLies
  <2>2. SubSeq(b, hi, hi + p - 1) = tail
    <3> HIDE DEF b, hi, tail
    <3>1. QED BY <1>3, <2>1, HasCut DEF p
  <2>3. QED BY <2>1, <2>2
<1>6. word = LoopWord(d)
  <2>1. b[w] = LoopWord(c)
    BY <1>3, HasAt DEF CueLies
  <2>2. b[w] \div LoopMod = d.pad[1]
    BY <2>1, CueTyped
  <2>3. QED BY <2>2 DEF LoopWord
<1>7. BodyOf(d) = command \o (one \o loop \o tail)
  BY <1>6 DEF BodyOf
<1>8. word \in Nat
  BY <1>6, CueTyped
<1>9. body = command \o (one \o loop \o tail)
  <2>1. one \in Cells
    <3> HIDE DEF word
    <3>1. QED BY <1>8 DEF Cells
  <2>2. body = command \o one \o loop \o tail
    BY <1>4, <1>5
  <2> HIDE DEF command, one, loop, tail, body
  <2> DEFINE both == one \o loop
  <2>3. both \in Cells /\ command \o one \in Cells
    BY <1>3, <2>1, Joined
  <2>4. command \o both = (command \o one) \o loop
    BY <1>3, <2>1, Regrouped, SMTT(30)
  <2> HIDE DEF both
  <2>5. command \o (both \o tail) = (command \o both) \o tail
    BY <1>3, <2>3, Regrouped, SMTT(30)
  <2>6. QED BY <2>2, <2>4, <2>5, Zenon DEF both
<1> HIDE DEF body, b
<1>10. WithLoop(s, L, loop) = Resized(s, body)
  <2>1. L.word = w /\ L.hi = hi
    BY DEF LoopOf
  <2> HIDE DEF L, s, loop, w, hi
  <2>2. QED BY <1>1, <2>1 DEF WithLoop, Resized, body
<1>11. Resized(s, body) = Frame(c.enc, TypeOf(c.cmd), cmdLen, body)
  <2> HIDE DEF s, cmdLen
  <2>1. QED BY <1>1, Reframed
<1>12. QED BY <1>2, <1>7, <1>9, <1>10, <1>11

\* A cue with other descriptors: it has a section if their lengths fit.
LEMMA Redescribed ==
  ASSUME NEW c \in Cues, NEW ds \in Seq(Descriptors), NEW e, e = [c EXCEPT !.descs = ds]
  PROVE  /\ e.enc = c.enc /\ e.cmd = c.cmd /\ e.descs = ds /\ e.pad = c.pad
         /\ LoopCells(e) = FlattenSeq(Parts(ds)) /\ FlattenSeq(Parts(ds)) \in Cells
         /\ e = [enc |-> c.enc, cmd |-> c.cmd, descs |-> ds, pad |-> c.pad]
         /\ e \in Cues <=> /\ \A k \in 1..Len(ds) : DescriptorCells(ds[k])[2] < LenMod
                           /\ Len(FlattenSeq(Parts(ds))) < LoopMod
<1>1. /\ c \in [enc : BOOLEAN, cmd : Commands, descs : Seq(Descriptors), pad : Nat \X Seq(Nat)]
      /\ c = [enc |-> c.enc, cmd |-> c.cmd, descs |-> c.descs, pad |-> c.pad]
  BY CueTyped DEF Cues
<1>2. /\ e.enc = c.enc /\ e.cmd = c.cmd /\ e.descs = ds /\ e.pad = c.pad
      /\ e = [enc |-> c.enc, cmd |-> c.cmd, descs |-> ds, pad |-> c.pad]
  BY <1>1
<1>3. e \in [enc : BOOLEAN, cmd : Commands, descs : Seq(Descriptors), pad : Nat \X Seq(Nat)]
  BY <1>1, <1>2
<1>4. LoopCells(e) = FlattenSeq(Parts(ds))
  BY <1>2 DEF LoopCells, Parts
<1>5. FlattenSeq(Parts(ds)) \in Cells
  <2>1. Parts(ds) \in Seq(Cells)
    BY PartsTyped
  <2>2. QED BY <2>1, Flattened DEF Cells
<1>6. DOMAIN e.descs = 1..Len(ds)
  BY <1>2
<1>7. e \in Cues <=> /\ \A k \in DOMAIN e.descs : DescriptorCells(e.descs[k])[2] < LenMod
                     /\ Len(LoopCells(e)) < LoopMod
  BY <1>3, Zenon DEF Cues
<1>8. e \in Cues <=> /\ \A k \in 1..Len(ds) : DescriptorCells(ds[k])[2] < LenMod
                     /\ Len(FlattenSeq(Parts(ds))) < LoopMod
  BY <1>2, <1>4, <1>6, <1>7, Zenon
<1>9. QED BY <1>2, <1>4, <1>5, <1>8, Zenon

\* The descriptors with the UPID given to all of them that can hold it.
AllGiven(ds, type, v) == [k \in DOMAIN ds |-> WithGiven(ds[k], type, v)]

\* rewrite_upid_b64 on the section of a cue: the section of the cue with the
\* UPID given, if its lengths fit.
LEMMA UpidSection ==
  ASSUME NEW c \in Cues, ~c.enc, NEW type \in Maybe(Nat), NEW v,
         \A kind \in Nat : UpidBytes(kind, v) \in Cells,
         \A k \in DOMAIN c.descs : ~GivenPanics(c.descs[k], type, v),
         NEW e, e = [c EXCEPT !.descs = AllGiven(c.descs, type, v)]
  PROVE  /\ AllGiven(c.descs, type, v) \in Seq(Descriptors)
         /\ RewriteUpid(Encode(c), type, v) \in {Encode(e), NoSection}
         /\ RewriteUpid(Encode(c), type, v) = NoSection => e = c \/ e \notin Cues
         /\ RewriteUpid(Encode(c), type, v) # NoSection => e \in Cues
<1> DEFINE n == Len(c.descs)
           b == BodyOf(c)
           s == Encode(c)
           L == LoopOf(c)
           ds == AllGiven(c.descs, type, v)
<1>1. PICK at : Found(c, at)
  BY FoundExists
<1> DEFINE starts == [k \in 1..n |-> at[k]]
<1>2. /\ n \in Nat /\ DOMAIN c.descs = 1..n /\ b \in Cells /\ s.body = b
      /\ \A k \in 1..n : /\ c.descs[k] \in Descriptors /\ at[k] \in Places
                         /\ Has(b, at[k], DescriptorCells(c.descs[k]))
  <2>1. \A k \in 1..n : k \in 1..(n + 1)
    BY FoundPlaces, <1>1
  <2>2. n \in Nat /\ DOMAIN c.descs = 1..n
    BY FoundPlaces, <1>1
  <2>3. b \in Cells /\ s.body = b
    BY EncodeForm, BodyForm
  <2>4. /\ \A k \in 1..(n + 1) : at[k] \in Places
        /\ \A k \in 1..n : c.descs[k] \in Descriptors /\ Has(b, at[k], DescriptorCells(c.descs[k]))
    BY FoundPlaces, <1>1
  <2> HIDE DEF n, b, s
  <2>5. QED BY <2>1, <2>2, <2>3, <2>4
<1>3. LocateLoop(s) = L /\ L # NoLoop /\ Starts(b, L) = starts /\ ~Overruns(b, L, starts)
  BY <1>1, LoopRead
<1>4. \A k \in 1..n : /\ WithGiven(c.descs[k], type, v) \in Descriptors
                      /\ RewriteDescriptor(b, at[k], type, v)
                           = DescriptorCells(WithGiven(c.descs[k], type, v))
                      /\ TakesUpid(b, at[k], type, v) <=> IsRenamed(c.descs[k], type, v)
  <2> HIDE DEF n, b, s
  <2>1. QED BY <1>2, DescriptorRewritten
<1>5. ds = [k \in 1..n |-> WithGiven(c.descs[k], type, v)] /\ DOMAIN ds = 1..n
  BY <1>2 DEF AllGiven
<1>6. ds \in Seq(Descriptors) /\ Len(ds) = n /\ \A k \in 1..n : ds[k] = WithGiven(c.descs[k], type, v)
  <2> HIDE DEF n
  <2>1. [k \in 1..n |-> WithGiven(c.descs[k], type, v)] \in Seq(Descriptors)
          /\ Len([k \in 1..n |-> WithGiven(c.descs[k], type, v)]) = n
    BY <1>2, <1>4
  <2>2. QED BY <1>5, <2>1, Zenon
<1> DEFINE changed == {k \in DOMAIN starts : TakesUpid(b, starts[k], type, v)}
           new == [k \in DOMAIN starts |-> RewriteDescriptor(b, starts[k], type, v)]
<1>7. RewriteUpid(s, type, v) = ReplaceLoop(s, L, starts, changed, new)
  <2>1. \A k \in DOMAIN starts : starts[k] = at[k] /\ k \in 1..n
    OBVIOUS
  <2>2. ~RewritePanics(b, L, starts, type, v)
    <3> HIDE DEF starts, b, n, L
    <3>1. \A k \in 1..n : UpidCell(b, at[k]) # 0 =>
            ~UpidPanics(Some(type, b[UpidCell(b, at[k])]), v)
      BY <1>2, DescriptorRewritten DEF GivenPanics
    <3>2. QED BY <2>1, <3>1 DEF RewritePanics
  <2> HIDE DEF L, starts, b, s
  <2>3. QED BY <1>2, <1>3, <2>2 DEF RewriteUpid, RewriteUpidIn
<1>8. DOMAIN starts = 1..n /\ \A k \in 1..n : starts[k] = at[k]
  OBVIOUS
<1> HIDE DEF starts
<1>9. new = Parts(ds)
  <2>1. new = [k \in 1..n |-> DescriptorCells(ds[k])]
    <3> HIDE DEF n, b, ds
    <3>1. QED BY <1>4, <1>6, <1>8
  <2>2. Parts(ds) = [k \in 1..n |-> DescriptorCells(ds[k])]
    <3> HIDE DEF n, ds
    <3>1. QED BY <1>5 DEF Parts
  <2>3. QED BY <2>1, <2>2
<1>10. changed = {k \in 1..n : IsRenamed(c.descs[k], type, v)}
  <2> HIDE DEF n, b
  <2>1. QED BY <1>4, <1>8
<1>11. (\A k \in 1..n : ~IsRenamed(c.descs[k], type, v)) => e = c
  <2>1. SUFFICES ASSUME \A k \in 1..n : ~IsRenamed(c.descs[k], type, v) PROVE e = c
    OBVIOUS
  <2>2. \A k \in 1..n : ds[k] = c.descs[k]
    <3> HIDE DEF n, ds
    <3>1. QED BY <1>6, <2>1 DEF WithGiven
  <2>3. c.descs = [k \in 1..n |-> c.descs[k]] /\ ds = [k \in 1..n |-> ds[k]]
    <3>1. c.descs \in Seq(Descriptors)
      BY CueTyped
    <3> HIDE DEF ds
    <3>2. QED BY <1>6, <3>1
  <2>4. ds = c.descs
    <3> HIDE DEF n, ds
    <3>1. QED BY <2>2, <2>3
  <2>5. c = [enc |-> c.enc, cmd |-> c.cmd, descs |-> c.descs, pad |-> c.pad]
    BY CueTyped
  <2>6. e = [enc |-> c.enc, cmd |-> c.cmd, descs |-> ds, pad |-> c.pad]
    <3> HIDE DEF ds
    <3>1. QED BY <1>6, Redescribed DEF ds
  <2>7. QED BY <2>4, <2>5, <2>6
<1> DEFINE loop == FlattenSeq(Parts(ds))
           l == Len(loop)
<1>12. /\ e.enc = c.enc /\ e.cmd = c.cmd /\ e.pad = c.pad /\ LoopCells(e) = loop /\ loop \in Cells
       /\ e \in Cues <=> (\A k \in 1..n : DescriptorCells(ds[k])[2] < LenMod) /\ l < LoopMod
  <2>1. e = [c EXCEPT !.descs = ds]
    OBVIOUS
  <2> HIDE DEF ds, n
  <2>2. QED BY <1>6, <2>1, Redescribed
<1>13. l \in Nat /\ LoopMod \in Nat /\ LenMod \in Nat
  <2> HIDE DEF loop
  <2>1. QED BY <1>12, LenProperties, WidthAssumption DEF Cells
<1>14. \A k \in 1..n : /\ Parts(ds)[k] = DescriptorCells(ds[k]) /\ DescriptorCells(ds[k])[2] \in Nat
                       /\ k \notin changed => DescriptorCells(ds[k])[2] < LenMod
  <2> SUFFICES ASSUME NEW k \in 1..n
               PROVE  /\ Parts(ds)[k] = DescriptorCells(ds[k]) /\ DescriptorCells(ds[k])[2] \in Nat
                      /\ k \notin changed => DescriptorCells(ds[k])[2] < LenMod
    OBVIOUS
  <2>1. Parts(ds)[k] = DescriptorCells(ds[k])
    <3> HIDE DEF n, ds
    <3>1. QED BY <1>5 DEF Parts
  <2>2. ds[k] \in Descriptors
    <3> HIDE DEF n, ds
    <3>1. QED BY <1>6
  <2>3. k \notin changed => ds[k] = c.descs[k]
    <3> HIDE DEF n, ds, changed
    <3>1. QED BY <1>6, <1>10 DEF WithGiven
  <2>4. DescriptorCells(c.descs[k])[2] < LenMod
    BY CueTyped
  <2> HIDE DEF n, ds, changed
  <2>5. QED BY <2>1, <2>2, <2>3, <2>4, DescriptorForm
<1> HIDE DEF new, changed
<1> DEFINE bad == \/ changed = {} \/ (\E k \in changed : new[k][2] >= LenMod) \/ l >= LoopMod
<1>15. ReplaceLoop(s, L, starts, changed, new) = IF bad THEN NoSection ELSE WithLoop(s, L, loop)
  <2>1. loop = FlattenSeq(new)
    BY <1>9
  <2> HIDE DEF s, L, b, loop
  <2>2. QED BY <1>2, <1>3, <2>1, Zenon DEF ReplaceLoop
<1>16. ~bad => e \in Cues
  <2> SUFFICES ASSUME ~bad PROVE e \in Cues
    OBVIOUS
  <2> HIDE DEF l, n, ds
  <2>1. l < LoopMod
    BY <1>13
  <2>2. \A k \in 1..n : DescriptorCells(ds[k])[2] < LenMod
    <3> SUFFICES ASSUME NEW k \in 1..n PROVE DescriptorCells(ds[k])[2] < LenMod
      OBVIOUS
    <3>1. k \in changed => ~(new[k][2] >= LenMod)
      OBVIOUS
    <3>2. new[k] = DescriptorCells(ds[k])
      BY <1>9, <1>14
    <3> DEFINE len == DescriptorCells(ds[k])[2]
    <3>3. len \in Nat /\ (k \notin changed => len < LenMod) /\ (k \in changed => ~(len >= LenMod))
      BY <1>14, <3>1, <3>2
    <3> HIDE DEF len
    <3>4. len < LenMod
      BY <1>13, <3>3
    <3>5. QED BY <3>4 DEF len
  <2>3. QED BY <1>12, <2>1, <2>2
<1>17. bad => e = c \/ e \notin Cues
  <2>1. ASSUME changed = {} PROVE e = c
    <3> HIDE DEF n
    <3>1. \A k \in 1..n : ~IsRenamed(c.descs[k], type, v)
      BY <1>10, <2>1
    <3>2. QED BY <1>11, <3>1
  <2>2. ASSUME NEW k \in changed, new[k][2] >= LenMod PROVE e \notin Cues
    <3> HIDE DEF n, ds
    <3>1. k \in 1..n
      BY <1>10
    <3> DEFINE len == DescriptorCells(ds[k])[2]
    <3>2. len \in Nat /\ len >= LenMod
      BY <1>9, <1>14, <2>2, <3>1
    <3>3. e \in Cues => len < LenMod
      BY <1>12, <3>1
    <3> HIDE DEF len
    <3>4. QED BY <1>13, <3>2, <3>3
  <2>3. ASSUME l >= LoopMod PROVE e \notin Cues
    <3> HIDE DEF n, ds, l
    <3>1. QED BY <1>12, <1>13, <2>3
  <2>4. QED BY <2>1, <2>2, <2>3
<1>18. ~bad => WithLoop(s, L, loop) = Encode(e)
  <2> SUFFICES ASSUME ~bad PROVE WithLoop(s, L, loop) = Encode(e)
    OBVIOUS
  <2>1. e \in Cues
    BY <1>16
  <2>2. e.enc = c.enc /\ e.cmd = c.cmd /\ e.pad = c.pad /\ LoopCells(e) = loop
    BY <1>12
  <2> HIDE DEF loop, bad
  <2>3. QED BY <2>1, <2>2, LoopReplaced
<1>19. Encode(e) # NoSection \/ bad
  <2>1. ~bad => Encode(e).table = 252
    BY <1>16, EncodeForm
  <2>2. NoSection.table = 0
    BY DEF NoSection
  <2> HIDE DEF bad
  <2>3. QED BY <2>1, <2>2
<1> HIDE DEF bad, s
<1>20. RewriteUpid(s, type, v) = IF bad THEN NoSection ELSE Encode(e)
  BY <1>7, <1>15, <1>18
<1>21. ds \in Seq(Descriptors)
  BY <1>6
<1> HIDE DEF ds
<1>22. QED BY <1>16, <1>17, <1>19, <1>20, <1>21 DEF ds, s

\* Where a UPID of the cue panics the edit panics, or it has failed before.
LEMMA UpidPanicked ==
  ASSUME NEW c \in Cues, ~c.enc, NEW type \in Maybe(Nat), NEW v,
         \A kind \in Nat : UpidBytes(kind, v) \in Cells,
         NEW x \in DOMAIN c.descs, GivenPanics(c.descs[x], type, v)
  PROVE  RewriteUpid(Encode(c), type, v) \in {Panicked, NoSection}
<1> DEFINE n == Len(c.descs)
           b == BodyOf(c)
           s == Encode(c)
           L == LoopOf(c)
<1>1. PICK at : Found(c, at)
  BY FoundExists
<1> DEFINE starts == [k \in 1..n |-> at[k]]
           changed == {k \in DOMAIN starts : TakesUpid(b, starts[k], type, v)}
           new == [k \in DOMAIN starts |-> RewriteDescriptor(b, starts[k], type, v)]
<1>2. /\ n \in Nat /\ DOMAIN c.descs = 1..n /\ b \in Cells /\ s.body = b
      /\ \A k \in 1..n : /\ c.descs[k] \in Descriptors /\ at[k] \in Places
                         /\ Has(b, at[k], DescriptorCells(c.descs[k]))
                         /\ After(b, at[k]) <= LoopEnd(c)
  <2>1. \A k \in 1..n : k \in 1..(n + 1)
    BY FoundPlaces, <1>1
  <2>2. n \in Nat /\ DOMAIN c.descs = 1..n
    BY FoundPlaces, <1>1
  <2>3. b \in Cells /\ s.body = b
    BY EncodeForm, BodyForm
  <2>4. /\ \A k \in 1..(n + 1) : at[k] \in Places
        /\ \A k \in 1..n : c.descs[k] \in Descriptors /\ Has(b, at[k], DescriptorCells(c.descs[k]))
        /\ \A k \in 1..n : After(b, at[k]) <= LoopEnd(c)
    BY FoundPlaces, <1>1
  <2> HIDE DEF n, b, s
  <2>5. QED BY <2>1, <2>2, <2>3, <2>4
<1>3. LocateLoop(s) = L /\ L # NoLoop /\ Starts(b, L) = starts /\ L.hi = LoopEnd(c)
  <2>1. LocateLoop(s) = L /\ L # NoLoop /\ Starts(b, L) = starts
    BY <1>1, LoopRead
  <2>2. L.hi = LoopEnd(c)
    BY DEF LoopOf
  <2>3. QED BY <2>1, <2>2
<1>4. DOMAIN starts = 1..n /\ \A k \in 1..n : starts[k] = at[k]
  OBVIOUS
<1>5. \A k \in 1..n : (TakesUpid(b, at[k], type, v) => RewriteDescriptor(b, at[k], type, v)[2] \in Nat)
  <2> SUFFICES ASSUME NEW k \in 1..n PROVE RewriteDescriptor(b, at[k], type, v)[2] \in Nat
    OBVIOUS
  <2> HIDE DEF n, b
  <2>1. /\ WithGiven(c.descs[k], type, v) \in Descriptors
        /\ RewriteDescriptor(b, at[k], type, v) = DescriptorCells(WithGiven(c.descs[k], type, v))
    BY <1>2, DescriptorRewritten
  <2>2. QED BY <2>1, DescriptorForm
<1>6. x \in 1..n /\ UpidCell(b, at[x]) # 0 /\ UpidPanics(Some(type, b[UpidCell(b, at[x])]), v)
  <2> HIDE DEF n, b
  <2>1. x \in 1..n
    BY <1>2
  <2>2. IsLive(c.descs[x]) /\ UpidPanics(Some(type, c.descs[x].upidType), v)
    BY DEF GivenPanics
  <2>3. UpidCell(b, at[x]) # 0
    BY <1>2, <2>1, <2>2, DescriptorSeen
  <2>4. b[UpidCell(b, at[x])] = c.descs[x].upidType
    BY <1>2, <2>1, <2>3, DescriptorRewritten
  <2>5. QED BY <2>1, <2>2, <2>3, <2>4
<1>7. LenMod \in Nat
  BY WidthAssumption
<1>8. RewriteUpid(s, type, v) =
        IF RewritePanics(b, L, starts, type, v) THEN Panicked ELSE ReplaceLoop(s, L, starts, changed, new)
  <2> HIDE DEF L, starts, b, s
  <2>1. QED BY <1>2, <1>3 DEF RewriteUpid, RewriteUpidIn
<1> HIDE DEF s, L, b, n, starts
<1>9. ASSUME ~RewritePanics(b, L, starts, type, v)
      PROVE  ReplaceLoop(s, L, starts, changed, new) = NoSection
  <2>1. After(b, starts[x]) <= L.hi
    BY <1>2, <1>3, <1>4, <1>6
  <2>2. PICK k \in 1..(x - 1) : /\ TakesUpid(b, starts[k], type, v)
                                /\ ~(RewriteDescriptor(b, starts[k], type, v)[2] < LenMod)
    BY <1>3, <1>4, <1>6, <1>9, <2>1, Zenon DEF RewritePanics
  <2>3. k \in 1..n
    BY <1>2, <1>6
  <2>4. k \in changed /\ new[k] = RewriteDescriptor(b, starts[k], type, v)
    BY <1>4, <2>2, <2>3
  <2>5. new[k][2] >= LenMod
    <3> DEFINE y == RewriteDescriptor(b, starts[k], type, v)[2]
    <3>1. y \in Nat /\ ~(y < LenMod)
      BY <1>4, <1>5, <2>2, <2>3
    <3> HIDE DEF y
    <3>2. y >= LenMod
      BY <1>7, <3>1
    <3>3. QED BY <2>4, <3>2 DEF y
  <2> HIDE DEF changed, new
  <2>6. QED BY <2>4, <2>5, Zenon DEF ReplaceLoop
<1>10. QED BY <1>8, <1>9 DEF s

(* Commands and descriptors in the place of others of the same length.      *)
SameLengths(c, m, ds) ==
    /\ TypeOf(m) = TypeOf(c.cmd) /\ Len(CommandCells(m)) = Len(CommandCells(c.cmd))
    /\ Len(ds) = Len(c.descs)
    /\ \A k \in 1..Len(ds) : Len(DescriptorCells(ds[k])) = Len(DescriptorCells(c.descs[k]))

Remade(c, m, ds) == [enc |-> c.enc, cmd |-> m, descs |-> ds, pad |-> c.pad]

LEMMA RemadeTyped ==
  ASSUME NEW c \in Cues, NEW m \in Commands, NEW ds \in Seq(Descriptors),
         SameLengths(c, m, ds), NEW at, Found(c, at)
  PROVE  /\ Remade(c, m, ds) \in Cues
         /\ Layout(at, WordAt(c) + 1, Parts(ds))
         /\ LoopCells(Remade(c, m, ds)) = FlattenSeq(Parts(ds))
         /\ Len(LoopCells(Remade(c, m, ds))) = Len(LoopCells(c))
         /\ WordAt(Remade(c, m, ds)) = WordAt(c)
         /\ LoopWord(Remade(c, m, ds)) = LoopWord(c)
         /\ LoopEnd(Remade(c, m, ds)) = LoopEnd(c)
<1> DEFINE e == Remade(c, m, ds)
           n == Len(ds)
           w == WordAt(c)
           hi == LoopEnd(c)
<1>1. /\ e.enc = c.enc /\ e.cmd = m /\ e.descs = ds /\ e.pad = c.pad
      /\ e \in [enc : BOOLEAN, cmd : Commands, descs : Seq(Descriptors), pad : Nat \X Seq(Nat)]
  <2>1. c \in [enc : BOOLEAN, cmd : Commands, descs : Seq(Descriptors), pad : Nat \X Seq(Nat)]
    BY DEF Cues
  <2>2. QED BY <2>1 DEF Remade
<1>2. /\ Parts(ds) \in Seq(Cells) /\ Len(Parts(ds)) = n /\ n \in Nat
      /\ \A k \in 1..n : ds[k] \in Descriptors /\ Parts(ds)[k] = DescriptorCells(ds[k])
  BY PartsTyped
<1>3. /\ n = Len(c.descs)
      /\ \A k \in 1..n : Len(DescriptorCells(ds[k])) = Len(DescriptorCells(c.descs[k]))
  BY DEF SameLengths
<1>4. Layout(at, w + 1, Parts(ds))
  <2>1. at \in [1..(n + 1) -> Places] /\ at[1] = w + 1
    BY <1>3 DEF Found, Lie
  <2>2. \A k \in 1..n : at[k + 1] = at[k] + Len(DescriptorCells(c.descs[k]))
    BY <1>3 DEF Found, Lie
  <2> HIDE DEF n, w
  <2>3. \A k \in 1..n : at[k + 1] = at[k] + Len(Parts(ds)[k])
    BY <1>2, <1>3, <2>2
  <2>4. QED BY <1>2, <2>1, <2>3 DEF Layout
<1>5. LoopCells(e) = FlattenSeq(Parts(ds))
  BY <1>1 DEF LoopCells, Parts
<1>6. w + 1 \in Places /\ hi = w + 1 + Len(LoopCells(c)) /\ w \in Nat /\ at[n + 1] = hi
  BY <1>3, FoundExists, CueTyped DEF Found
<1>7. Len(FlattenSeq(Parts(ds))) = Len(LoopCells(c))
  <2> DEFINE x == Len(FlattenSeq(Parts(ds)))
             y == Len(LoopCells(c))
  <2>1. FlattenSeq(Parts(ds)) \in Cells /\ at[n + 1] = w + 1 + x
    <3> HIDE DEF w
    <3>1. FlattenSeq(Parts(ds)) \in Cells /\ at[Len(Parts(ds)) + 1] = w + 1 + x
      BY <1>2, <1>4, <1>6, LayoutHas
    <3>2. QED BY <1>2, <3>1
  <2>2. x \in Nat /\ y \in Nat
    BY <2>1, LenProperties, CueTyped DEF Cells
  <2>3. hi = w + 1 + y /\ hi = w + 1 + x /\ w \in Nat
    BY <1>6, <2>1
  <2> HIDE DEF x, y, hi, w
  <2>4. x = y
    BY <2>2, <2>3
  <2>5. QED BY <2>4 DEF x, y
<1>8. e \in Cues
  <2>1. \A k \in 1..n : DescriptorCells(ds[k])[2] < LenMod
    <3> SUFFICES ASSUME NEW k \in 1..n PROVE DescriptorCells(ds[k])[2] < LenMod
      OBVIOUS
    <3> DEFINE x == DescriptorCells(ds[k])[2]
               y == DescriptorCells(c.descs[k])[2]
               i == Len(DescriptorCells(ds[k]))
               j == Len(DescriptorCells(c.descs[k]))
    <3>1. ds[k] \in Descriptors /\ c.descs[k] \in Descriptors
      BY <1>2, <1>3, CueTyped
    <3>2. i = j /\ i = x + 2 /\ j = y + 2 /\ x \in Nat /\ y \in Nat /\ i \in Nat /\ j \in Nat
      BY <1>3, <3>1, DescriptorForm
    <3>3. y < LenMod
      BY <1>3, CueTyped
    <3> HIDE DEF x, y, i, j, e, n, w, hi
    <3>4. x = y
      <4>1. x + 2 = y + 2 /\ x \in Nat /\ y \in Nat
        BY <3>2
      <4>2. QED BY <4>1
    <3>5. QED BY <3>3, <3>4 DEF x
  <2>2. DOMAIN e.descs = 1..n
    BY <1>1
  <2>3. Len(LoopCells(e)) < LoopMod
    BY <1>5, <1>7, CueTyped
  <2> HIDE DEF e
  <2>4. QED BY <1>1, <2>1, <2>2, <2>3 DEF Cues
<1>9. WordAt(e) = w /\ LoopWord(e) = LoopWord(c) /\ LoopEnd(e) = hi
  <2>1. WordAt(e) = w
    BY <1>1 DEF WordAt, SameLengths
  <2> HIDE DEF e
  <2>2. LoopWord(e) = LoopWord(c)
    BY <1>1, <1>5, <1>7 DEF LoopWord
  <2>3. LoopEnd(e) = WordAt(e) + 1 + Len(LoopCells(e))
    BY DEF LoopEnd
  <2>4. QED BY <1>5, <1>6, <1>7, <2>1, <2>2, <2>3
<1> HIDE DEF e
<1>10. QED BY <1>4, <1>5, <1>7, <1>8, <1>9 DEF e

\* An edit in place writes the section of the cue remade, if its cells are
\* those of the new command and descriptors where the old ones lay.
LEMMA CellsReplaced ==
  ASSUME NEW c \in Cues, NEW m \in Commands, NEW ds \in Seq(Descriptors),
         SameLengths(c, m, ds), NEW at, Found(c, at),
         NEW body \in Cells, Len(body) = Len(BodyOf(c)),
         Has(body, 1, CommandCells(m)), body[WordAt(c)] = BodyOf(c)[WordAt(c)],
         \A k \in 1..Len(ds) : Has(body, at[k], DescriptorCells(ds[k])),
         \A x \in LoopEnd(c)..Len(body) : body[x] = BodyOf(c)[x]
  PROVE  Remade(c, m, ds) \in Cues /\ Resealed(Encode(c), body) = Encode(Remade(c, m, ds))
<1> DEFINE e == Remade(c, m, ds)
           b == BodyOf(c)
           n == Len(ds)
           w == WordAt(c)
           hi == LoopEnd(c)
           p == Len(c.pad[2])
<1>1. e \in Cues /\ Layout(at, w + 1, Parts(ds)) /\ LoopCells(e) = FlattenSeq(Parts(ds))
        /\ WordAt(e) = w /\ LoopWord(e) = LoopWord(c) /\ LoopEnd(e) = hi
  BY RemadeTyped
<1>2. e.enc = c.enc /\ e.cmd = m /\ e.pad = c.pad
  BY DEF Remade
<1>3. /\ Parts(ds) \in Seq(Cells) /\ Len(Parts(ds)) = n
      /\ \A k \in 1..n : Parts(ds)[k] = DescriptorCells(ds[k])
  BY PartsTyped
<1>4. b \in Cells /\ CueLies(b, c) /\ c.pad[2] \in Cells
  BY BodyForm, CueTyped
<1>5. w \in Places /\ w + 1 \in Places /\ hi \in Places /\ w < hi /\ hi <= Len(b) + 1
  BY FoundExists
<1> HIDE DEF e
<1>6. Has(body, w, <<LoopWord(c)>>)
  <2>1. Has(b, w, <<LoopWord(c)>>)
    BY <1>4 DEF CueLies
  <2> HIDE DEF b, w
  <2>2. w \in DOMAIN b /\ b[w] = LoopWord(c)
    BY <1>4, <1>5, <2>1, HasOne
  <2>3. DOMAIN body = DOMAIN b
    BY <1>4 DEF Cells, b
  <2>4. body[w] = LoopWord(c)
    BY <2>2 DEF b, w
  <2>5. QED BY <1>5, <2>2, <2>3, <2>4, HasOne
<1>7. Has(body, w + 1, FlattenSeq(Parts(ds)))
  <2>1. at[Len(Parts(ds)) + 1] = hi
    BY <1>3 DEF Found, SameLengths
  <2>2. hi <= Len(body) + 1
    BY <1>5
  <2>3. \A k \in 1..Len(Parts(ds)) : Has(body, at[k], Parts(ds)[k])
    BY <1>3
  <2> HIDE DEF w, hi
  <2>4. at[Len(Parts(ds)) + 1] <= Len(body) + 1
    BY <2>1, <2>2
  <2>5. QED BY <1>1, <1>3, <1>5, <2>3, <2>4, LayoutHas
<1>8. Has(body, hi, c.pad[2]) /\ Len(body) = hi + p - 1
  <2>1. Has(b, hi, c.pad[2]) /\ Len(b) = hi + p - 1
    BY <1>4 DEF CueLies
  <2>2. \A x \in hi..(hi + p - 1) : body[x] = b[x]
    BY <2>1
  <2> HIDE DEF b, hi
  <2>3. QED BY <1>4, <1>5, <2>1, <2>2, HasKept DEF p, b
<1>9. CueLies(body, e)
  BY <1>1, <1>2, <1>6, <1>7, <1>8 DEF CueLies
<1>10. body = BodyOf(e)
  BY <1>1, <1>9, BodyForm
<1>11. Encode(c) = Frame(c.enc, TypeOf(c.cmd), Len(CommandCells(c.cmd)), b)
  BY EncodeForm
<1>12. Encode(e) = Frame(c.enc, TypeOf(c.cmd), Len(CommandCells(c.cmd)), body)
  <2>1. Encode(e) = Frame(e.enc, TypeOf(e.cmd), Len(CommandCells(e.cmd)), BodyOf(e))
    BY <1>1, EncodeForm
  <2>2. TypeOf(e.cmd) = TypeOf(c.cmd) /\ Len(CommandCells(e.cmd)) = Len(CommandCells(c.cmd))
    BY <1>2 DEF SameLengths
  <2> DEFINE i == Len(CommandCells(c.cmd))
             j == Len(CommandCells(e.cmd))
             t == TypeOf(c.cmd)
             u == TypeOf(e.cmd)
             f == BodyOf(e)
  <2>3. Encode(e) = Frame(e.enc, u, j, f) /\ u = t /\ i = j /\ f = body /\ e.enc = c.enc
    BY <1>2, <1>10, <2>1, <2>2
  <2> HIDE DEF i, j, t, u, f
  <2>4. Encode(e) = Frame(c.enc, t, i, body)
    BY <2>3
  <2>5. QED BY <2>4 DEF i, t
<1>13. Resealed(Frame(c.enc, TypeOf(c.cmd), Len(CommandCells(c.cmd)), b), body)
         = Frame(c.enc, TypeOf(c.cmd), Len(CommandCells(c.cmd)), body)
  BY Reframed
<1>14. QED BY <1>1, <1>11, <1>12, <1>13, Zenon DEF e

(* One cell of a descriptor written anew: its flags, or its duration.       *)
LEMMA AroundKept ==
  ASSUME NEW b \in Cells, NEW i \in Places, NEW d \in Segmentations, SegmentationLies(b, i, d),
         NEW body \in Cells, Len(body) = Len(b),
         \A x \in i..(i + Len(DescriptorCells(d)) - 1) :
            x = i + 4 \/ (d.dur # NoneNamed /\ x = i + 5 + Len(Components(d))) \/ body[x] = b[x]
  PROVE  /\ Has(body, i, <<SegTag, TypeAt(d) - 1 + Len(d.rest)>>)
         /\ body[i + 2] = d.id /\ body[i + 3] = 0 /\ i + 4 \in DOMAIN body
         /\ Has(body, i + 5, Components(d))
         /\ Has(body, i + UpidAt(d), <<d.upidType, Len(d.upid)>>)
         /\ Has(body, i + UpidAt(d) + 2, d.upid)
         /\ Has(body, i + TypeAt(d), <<d.typeId>>)
         /\ Has(body, i + TypeAt(d) + 1, d.rest)
<1> DEFINE u == UpidAt(d)
           t == TypeAt(d)
           r == Len(d.rest)
           m == Len(d.upid)
           n == Len(Components(d))
           q == Len(d.dur)
           s1 == <<SegTag, t - 1 + r>>
           s2 == Components(d)
           s4 == <<d.upidType, m>>
           s5 == d.upid
           s6 == <<d.typeId>>
           s7 == d.rest
           z == Len(DescriptorCells(d))
<1>1. /\ i \in Nat /\ i >= 1 /\ n \in Nat /\ u \in Nat /\ t \in Nat /\ r \in Nat /\ m \in Nat
      /\ q \in Nat /\ t = u + 2 + m /\ u = 5 + n + q /\ (d.dur # NoneNamed => q = 1)
      /\ z = t + 1 + r /\ z \in Nat
  <2>1. n \in Nat /\ u \in Nat /\ t \in Nat /\ r \in Nat /\ m \in Nat /\ q \in Nat
          /\ (d.dur # NoneNamed => q = 1)
    BY SegmentationTyped, LenProperties DEF Cells
  <2>2. t = u + 2 + m /\ u = 5 + n + q /\ z = t + 1 + r
    BY SegmentationForm DEF TypeAt, UpidAt
  <2> HIDE DEF n, u, t, r, m, q, z
  <2>3. QED BY <2>1, <2>2 DEF Places
<1>2. /\ s1 \in Cells /\ s2 \in Cells /\ s4 \in Cells /\ s5 \in Cells /\ s6 \in Cells
      /\ s7 \in Cells
  <2> DEFINE f == t - 1 + r
  <2>1. s2 \in Cells /\ s5 \in Cells /\ s7 \in Cells /\ d.upidType \in Nat /\ d.typeId \in Nat
    BY SegmentationTyped
  <2>2. f \in Nat /\ SegTag \in Nat
    <3> HIDE DEF n, u, t, r, m, q
    <3>1. QED BY <1>1 DEF SegTag
  <2>3. s1 = <<SegTag, f>>
    OBVIOUS
  <2> HIDE DEF f, s1, m
  <2>4. <<SegTag, f>> \in Cells /\ s4 \in Cells /\ s6 \in Cells
    BY <1>1, <2>1, <2>2 DEF Cells
  <2>5. QED BY <2>1, <2>3, <2>4
<1>2a. Len(s1) = 2 /\ Len(s4) = 2 /\ Len(s6) = 1
  OBVIOUS
<1>2b. Len(s2) = n /\ Len(s5) = m /\ Len(s7) = r
  OBVIOUS
<1>3. /\ Has(b, i, s1) /\ Has(b, i + 5, s2) /\ Has(b, i + u, s4) /\ Has(b, i + u + 2, s5)
      /\ Has(b, i + t, s6) /\ Has(b, i + t + 1, s7)
  BY DEF SegmentationLies
<1>4. b[i + 2] = d.id /\ b[i + 3] = 0 /\ i + 4 \in DOMAIN b
  <2>1. \A x \in i..(i + 4) : x \in DOMAIN b
    BY SegmentationCells
  <2>2. i + 4 \in i..(i + 4)
    BY <1>1
  <2>3. QED BY <2>1, <2>2, SegmentationCells
<1>5. DOMAIN body = DOMAIN b
  BY DEF Cells
<1> DEFINE dur == d.dur # NoneNamed
<1>6. \A x \in i..(i + z - 1) : x = i + 4 \/ (dur /\ x = i + 5 + n) \/ body[x] = b[x]
  OBVIOUS
<1>7. /\ i + 5 \in Places /\ i + u \in Places /\ i + u + 2 \in Places
      /\ i + t \in Places /\ i + t + 1 \in Places
  <2> HIDE DEF n, u, t, r, m, q, z
  <2>1. QED BY <1>1 DEF Places
<1>8. dur => q = 1
  BY <1>1
<1>9. /\ \A x \in i..(i + 2 - 1) : body[x] = b[x]
      /\ body[i + 2] = b[i + 2] /\ body[i + 3] = b[i + 3]
  <2> HIDE DEF n, u, t, r, m, q, z, dur
  <2>1. \A x \in i..(i + 3) : x \in i..(i + z - 1) /\ x # i + 4 /\ x # i + 5 + n
    BY <1>1
  <2>2. \A x \in i..(i + 3) : body[x] = b[x]
    BY <1>6, <2>1
  <2>3. i + 2 \in i..(i + 3) /\ i + 3 \in i..(i + 3) /\ \A x \in i..(i + 2 - 1) : x \in i..(i + 3)
    BY <1>1
  <2>4. QED BY <2>2, <2>3
<1>10. \A x \in (i + 5)..(i + 5 + n - 1) : body[x] = b[x]
  <2> HIDE DEF n, u, t, r, m, q, z, dur
  <2>1. \A x \in (i + 5)..(i + 5 + n - 1) :
           x \in i..(i + z - 1) /\ x # i + 4 /\ x # i + 5 + n
    BY <1>1
  <2>2. QED BY <1>6, <2>1
<1>11. \A x \in (i + u)..(i + z - 1) : body[x] = b[x]
  <2> HIDE DEF n, u, t, r, m, q, z, dur
  <2>1. \A x \in (i + u)..(i + z - 1) :
           x \in i..(i + z - 1) /\ x # i + 4 /\ (dur => x # i + 5 + n)
    BY <1>1, <1>8
  <2>2. QED BY <1>6, <2>1
<1>12. /\ \A x \in (i + u)..(i + u + 2 - 1) : body[x] = b[x]
       /\ \A x \in (i + u + 2)..(i + u + 2 + m - 1) : body[x] = b[x]
       /\ \A x \in (i + t)..(i + t + 1 - 1) : body[x] = b[x]
       /\ \A x \in (i + t + 1)..(i + t + 1 + r - 1) : body[x] = b[x]
  <2> HIDE DEF n, u, t, r, m, q, z, dur
  <2>1. /\ \A x \in (i + u)..(i + u + 2 - 1) : x \in (i + u)..(i + z - 1)
        /\ \A x \in (i + u + 2)..(i + u + 2 + m - 1) : x \in (i + u)..(i + z - 1)
        /\ \A x \in (i + t)..(i + t + 1 - 1) : x \in (i + u)..(i + z - 1)
        /\ \A x \in (i + t + 1)..(i + t + 1 + r - 1) : x \in (i + u)..(i + z - 1)
    BY <1>1
  <2>2. QED BY <1>11, <2>1
<1> HIDE DEF n, u, t, r, m, q, z, dur, s1, s2, s4, s5, s6, s7
<1>13. Has(body, i, s1)
  BY <1>2, <1>2a, <1>3, <1>9, HasKept
<1>14. Has(body, i + 5, s2)
  BY <1>2, <1>2b, <1>3, <1>7, <1>10, HasKept
<1>15. Has(body, i + u, s4)
  BY <1>2, <1>2a, <1>3, <1>7, <1>12, HasKept
<1>16. Has(body, i + u + 2, s5)
  BY <1>2, <1>2b, <1>3, <1>7, <1>12, HasKept
<1>17. Has(body, i + t, s6)
  BY <1>2, <1>2a, <1>3, <1>7, <1>12, HasKept
<1>18. Has(body, i + t + 1, s7)
  BY <1>2, <1>2b, <1>3, <1>7, <1>12, HasKept
<1>19. QED
  BY <1>4, <1>5, <1>9, <1>13, <1>14, <1>15, <1>16, <1>17, <1>18
     DEF u, t, m, r, n, s1, s2, s4, s5, s6, s7

\* A descriptor with other delivery restrictions.
Limited(d, limits) == [d EXCEPT !.limits = <<limits>>]

LEMMA LimitsWritten ==
  ASSUME NEW b \in Cells, NEW i \in Places, NEW d \in Segmentations, SegmentationLies(b, i, d),
         NEW body \in Cells, Len(body) = Len(b), NEW limits \in 0..31,
         body[i + 4] = (b[i + 4] \div 64) * 64 + limits,
         \A x \in i..(i + Len(DescriptorCells(d)) - 1) : x # i + 4 => body[x] = b[x]
  PROVE  /\ Limited(d, limits) \in Segmentations
         /\ Len(DescriptorCells(Limited(d, limits))) = Len(DescriptorCells(d))
         /\ Has(body, i, DescriptorCells(Limited(d, limits)))
<1> DEFINE e == Limited(d, limits)
           n == Len(Components(d))
           z == Len(DescriptorCells(d))
<1>1. <<limits>> \in Maybe(0..31)
  <2> DEFINE C == 0..31
  <2>1. limits \in C
    OBVIOUS
  <2> HIDE DEF C
  <2>2. <<limits>> \in Maybe(C)
    BY <2>1, One
  <2>3. QED BY <2>2 DEF C
<1>2. e \in Segmentations
  BY <1>1 DEF Segmentations, Limited
<1>3. /\ e.id = d.id /\ e.components = d.components /\ e.dur = d.dur /\ e.limits = <<limits>>
      /\ e.upidType = d.upidType /\ e.upid = d.upid /\ e.typeId = d.typeId /\ e.rest = d.rest
  BY DEF Segmentations, Limited
<1> HIDE DEF e
<1>4. Components(e) = Components(d)
  BY <1>3 DEF Components
<1>5. UpidAt(e) = UpidAt(d)
  BY <1>3, <1>4 DEF UpidAt
<1>6. TypeAt(e) = TypeAt(d)
  BY <1>3, <1>5 DEF TypeAt
<1>7. SegFlags(e) = (SegFlags(d) \div 64) * 64 + limits
  <2> DEFINE x == Flag(d.components = NoneNamed, 128)
             y == Flag(d.dur # NoneNamed, 64)
             f == (SegFlags(d) \div 64) * 64
  <2>1. f = x + y
    BY SegmentationFlags
  <2>2. e.limits # NoneNamed /\ e.limits[1] = limits
    BY <1>3 DEF NoneNamed
  <2>3. SegFlags(e) = x + y + limits
    BY <1>3, <2>2 DEF SegFlags
  <2> HIDE DEF x, y, f
  <2>4. SegFlags(e) = f + limits
    BY <2>1, <2>3
  <2>5. QED BY <2>4 DEF f
<1>8. Len(DescriptorCells(e)) = z
  BY <1>2, <1>3, <1>6, SegmentationForm
<1>9. i \in Nat /\ n \in Nat /\ z \in Nat /\ z >= i + 5 + n - i
  <2> DEFINE u == UpidAt(d)
             t == TypeAt(d)
             r == Len(d.rest)
             m == Len(d.upid)
             q == Len(d.dur)
  <2>1. n \in Nat /\ u \in Nat /\ t \in Nat /\ r \in Nat /\ m \in Nat /\ q \in Nat
    BY SegmentationTyped, LenProperties DEF Cells
  <2>2. t = u + 2 + m /\ u = 5 + n + q /\ z = t + 1 + r
    BY SegmentationForm DEF TypeAt, UpidAt
  <2> HIDE DEF n, u, t, r, m, q, z
  <2>3. QED BY <2>1, <2>2 DEF Places
<1>10. body[i + 4] = SegFlags(e)
  <2>1. b[i + 4] = SegFlags(d)
    BY SegmentationCells
  <2>2. QED BY <1>7, <2>1
<1>11. /\ Has(body, i, <<SegTag, TypeAt(d) - 1 + Len(d.rest)>>)
       /\ body[i + 2] = d.id /\ body[i + 3] = 0 /\ i + 4 \in DOMAIN body
       /\ Has(body, i + 5, Components(d))
       /\ Has(body, i + UpidAt(d), <<d.upidType, Len(d.upid)>>)
       /\ Has(body, i + UpidAt(d) + 2, d.upid)
       /\ Has(body, i + TypeAt(d), <<d.typeId>>)
       /\ Has(body, i + TypeAt(d) + 1, d.rest)
  <2>1. \A x \in i..(i + z - 1) : x = i + 4 \/ (d.dur # NoneNamed /\ x = i + 5 + n) \/ body[x] = b[x]
    OBVIOUS
  <2>2. QED BY <2>1, AroundKept
<1>12. Has(body, i + 2, <<d.id, 0, SegFlags(e)>>)
  <2>1. i + 2 \in Places /\ (i + 2) + 2 = i + 4 /\ (i + 2) + 1 = i + 3
    BY <1>9 DEF Places
  <2>2. (i + 2) + 2 \in DOMAIN body /\ body[(i + 2) + 1] = 0 /\ body[(i + 2) + 2] = SegFlags(e)
    BY <1>10, <1>11, <2>1
  <2>3. QED BY <1>11, <2>1, <2>2, HasThree
<1>13. Has(body, i + 5 + n, d.dur)
  <2> DEFINE j == i + 5 + n
             q == Len(d.dur)
  <2>1. Has(b, j, d.dur)
    BY DEF SegmentationLies
  <2>2. j \in Places /\ d.dur \in Cells
    <3>1. j \in Places
      <4> HIDE DEF n
      <4>1. QED BY <1>9 DEF Places
    <3>2. QED BY <3>1, SegmentationTyped
  <2>3. \A x \in j..(j + q - 1) : x \in i..(i + z - 1) /\ x # i + 4
    <3> DEFINE u == UpidAt(d)
               t == TypeAt(d)
               r == Len(d.rest)
               m == Len(d.upid)
    <3>1. u \in Nat /\ t \in Nat /\ r \in Nat /\ m \in Nat /\ q \in Nat
      BY SegmentationTyped, LenProperties DEF Cells
    <3>2. t = u + 2 + m /\ u = 5 + n + q /\ z = t + 1 + r
      BY SegmentationForm DEF TypeAt, UpidAt
    <3> HIDE DEF n, u, t, r, m, q, z
    <3>3. QED BY <1>9, <3>1, <3>2
  <2>4. \A x \in j..(j + q - 1) : body[x] = b[x]
    <3> HIDE DEF j, q
    <3>1. QED BY <2>3
  <2> HIDE DEF j
  <2>5. Has(body, j, d.dur)
    BY <2>1, <2>2, <2>4, HasKept DEF q
  <2>6. QED BY <2>5 DEF j
<1>14. SegmentationLies(body, i, e)
  BY <1>3, <1>4, <1>5, <1>6, <1>11, <1>12, <1>13 DEF SegmentationLies, n
<1>15. Has(body, i, DescriptorCells(e))
  BY <1>2, <1>14, SegmentationForm
<1>16. QED BY <1>2, <1>8, <1>15 DEF e, z

\* A descriptor with another duration.
Lasting(d, t) == [d EXCEPT !.dur = <<t>>]

LEMMA DurationWritten ==
  ASSUME NEW b \in Cells, NEW i \in Places, NEW d \in Segmentations, SegmentationLies(b, i, d),
         d.dur # NoneNamed, NEW body \in Cells, Len(body) = Len(b), NEW v \in Nat,
         body[i + 5 + Len(Components(d))] = v,
         \A x \in i..(i + Len(DescriptorCells(d)) - 1) :
            x # i + 5 + Len(Components(d)) => body[x] = b[x]
  PROVE  /\ Lasting(d, v) \in Segmentations
         /\ Len(DescriptorCells(Lasting(d, v))) = Len(DescriptorCells(d))
         /\ Has(body, i, DescriptorCells(Lasting(d, v)))
<1> DEFINE e == Lasting(d, v)
           n == Len(Components(d))
           z == Len(DescriptorCells(d))
<1>1. <<v>> \in Maybe(Nat) /\ Len(<<v>>) = 1 /\ <<v>> # NoneNamed
  <2> DEFINE C == Nat
  <2>1. v \in C
    OBVIOUS
  <2> HIDE DEF C
  <2>2. <<v>> \in Maybe(C)
    BY <2>1, One
  <2>3. QED BY <2>2 DEF C, NoneNamed
<1>2. e \in Segmentations
  BY <1>1 DEF Segmentations, Lasting
<1>3. /\ e.id = d.id /\ e.components = d.components /\ e.dur = <<v>> /\ e.limits = d.limits
      /\ e.upidType = d.upidType /\ e.upid = d.upid /\ e.typeId = d.typeId /\ e.rest = d.rest
  BY DEF Segmentations, Lasting
<1> HIDE DEF e
<1>4. Components(e) = Components(d)
  BY <1>3 DEF Components
<1>5. UpidAt(e) = UpidAt(d)
  <2>1. Len(d.dur) = 1
    BY SegmentationTyped
  <2>2. Len(e.dur) = 1
    BY <1>3
  <2>3. QED BY <1>4, <2>1, <2>2 DEF UpidAt
<1>6. TypeAt(e) = TypeAt(d)
  BY <1>3, <1>5 DEF TypeAt
<1>7. SegFlags(e) = SegFlags(d)
  <2>1. (e.dur # NoneNamed) = (d.dur # NoneNamed)
    BY <1>1, <1>3
  <2>2. QED BY <1>3, <2>1 DEF SegFlags
<1>8. Len(DescriptorCells(e)) = z
  BY <1>2, <1>3, <1>6, SegmentationForm
<1>9. i \in Nat /\ n \in Nat /\ z \in Nat /\ z > 5 + n
  <2> DEFINE u == UpidAt(d)
             t == TypeAt(d)
             r == Len(d.rest)
             m == Len(d.upid)
             q == Len(d.dur)
  <2>1. n \in Nat /\ u \in Nat /\ t \in Nat /\ r \in Nat /\ m \in Nat /\ q \in Nat
    BY SegmentationTyped, LenProperties DEF Cells
  <2>2. t = u + 2 + m /\ u = 5 + n + q /\ z = t + 1 + r
    BY SegmentationForm DEF TypeAt, UpidAt
  <2> HIDE DEF n, u, t, r, m, q, z
  <2>3. QED BY <2>1, <2>2 DEF Places
<1>10. body[i + 4] = SegFlags(e)
  <2>1. b[i + 4] = SegFlags(d)
    BY SegmentationCells
  <2>2. i + 4 \in i..(i + z - 1) /\ i + 4 # i + 5 + n
    <3> HIDE DEF n, z
    <3>1. QED BY <1>9
  <2>3. body[i + 4] = b[i + 4]
    BY <2>2
  <2>4. QED BY <1>7, <2>1, <2>3
<1>11. /\ Has(body, i, <<SegTag, TypeAt(d) - 1 + Len(d.rest)>>)
       /\ body[i + 2] = d.id /\ body[i + 3] = 0 /\ i + 4 \in DOMAIN body
       /\ Has(body, i + 5, Components(d))
       /\ Has(body, i + UpidAt(d), <<d.upidType, Len(d.upid)>>)
       /\ Has(body, i + UpidAt(d) + 2, d.upid)
       /\ Has(body, i + TypeAt(d), <<d.typeId>>)
       /\ Has(body, i + TypeAt(d) + 1, d.rest)
  <2>1. \A x \in i..(i + z - 1) : x = i + 4 \/ (d.dur # NoneNamed /\ x = i + 5 + n) \/ body[x] = b[x]
    OBVIOUS
  <2>2. QED BY <2>1, AroundKept
<1>12. Has(body, i + 2, <<d.id, 0, SegFlags(e)>>)
  <2>1. i + 2 \in Places /\ (i + 2) + 2 = i + 4 /\ (i + 2) + 1 = i + 3
    BY <1>9 DEF Places
  <2>2. (i + 2) + 2 \in DOMAIN body /\ body[(i + 2) + 1] = 0 /\ body[(i + 2) + 2] = SegFlags(e)
    BY <1>10, <1>11, <2>1
  <2>3. QED BY <1>11, <2>1, <2>2, HasThree
<1>13. Has(body, i + 5 + n, <<v>>)
  <2> DEFINE j == i + 5 + n
  <2>1. j \in DOMAIN b
    BY SegmentationCells
  <2>2. j \in Places
    <3> HIDE DEF n
    <3>1. QED BY <1>9 DEF Places
  <2>3. j \in DOMAIN body /\ body[j] = v
    BY <2>1 DEF Cells
  <2> HIDE DEF j
  <2>4. Has(body, j, <<v>>)
    BY <2>2, <2>3, HasOne
  <2>5. QED BY <2>4 DEF j
<1>14. SegmentationLies(body, i, e)
  BY <1>3, <1>4, <1>5, <1>6, <1>11, <1>12, <1>13 DEF SegmentationLies, n
<1>15. Has(body, i, DescriptorCells(e))
  BY <1>2, <1>14, SegmentationForm
<1>16. QED BY <1>2, <1>8, <1>15 DEF e, z

(* At most one cell of each descriptor: what is in one of them is in no     *)
(* other.                                                                   *)
Chosen(c, at, cell) ==
    \A k \in 1..Len(c.descs) :
       cell[k] = 0 \/ cell[k] \in at[k]..(at[k] + Len(DescriptorCells(c.descs[k])) - 1)

LEMMA ChosenOnce ==
  ASSUME NEW c \in Cues, NEW at, Found(c, at), NEW cell, Chosen(c, at, cell)
  PROVE  /\ \A k, j \in 1..Len(c.descs) :
              cell[j] \in at[k]..(at[k] + Len(DescriptorCells(c.descs[k])) - 1) => cell[j] = cell[k]
         /\ \A k \in 1..Len(c.descs) :
              cell[k] = 0 \/ (cell[k] \in Places /\ cell[k] > WordAt(c) /\ cell[k] < LoopEnd(c))
<1> DEFINE n == Len(c.descs)
           w == WordAt(c)
           hi == LoopEnd(c)
           ss == Parts(c.descs)
<1>1. /\ n \in Nat /\ w \in Nat /\ hi \in Nat
      /\ \A k \in 1..(n + 1) : at[k] \in Nat /\ at[k] >= w + 1
      /\ \A k \in 1..n : /\ c.descs[k] \in Descriptors
                         /\ at[k + 1] = at[k] + Len(DescriptorCells(c.descs[k]))
                         /\ at[k + 1] <= hi
  BY FoundPlaces, CueTyped
<1>2. /\ ss \in Seq(Cells) /\ Len(ss) = n
      /\ \A k \in 1..n : ss[k] = DescriptorCells(c.descs[k]) /\ Len(ss[k]) \in Nat
  BY CueTyped, PartsTyped
<1>3. Layout(at, w + 1, ss)
  <2>1. at \in [1..(n + 1) -> Places] /\ at[1] = w + 1
    BY DEF Found, Lie
  <2> HIDE DEF n, w, ss
  <2>2. QED BY <1>1, <1>2, <2>1 DEF Layout
<1>4. \A k \in 1..n : cell[k] = 0 \/ cell[k] \in at[k]..(at[k] + Len(ss[k]) - 1)
  BY <1>2 DEF Chosen
<1> HIDE DEF n, w, hi, ss
<1>5. ASSUME NEW k \in 1..n, NEW j \in 1..n, cell[j] \in at[k]..(at[k] + Len(ss[k]) - 1)
      PROVE  cell[j] = cell[k]
  <2>1. /\ at[k] \in Nat /\ at[j] \in Nat /\ Len(ss[k]) \in Nat /\ Len(ss[j]) \in Nat
        /\ at[k] >= w + 1
    <3>1. k \in 1..(n + 1) /\ j \in 1..(n + 1)
      BY <1>1
    <3>2. QED BY <1>1, <1>2, <3>1
  <2> DEFINE x == cell[j]
             p == at[k]
             q == at[j]
             y == Len(ss[k])
             z == Len(ss[j])
  <2>1a. /\ p \in Nat /\ q \in Nat /\ y \in Nat /\ z \in Nat /\ p >= w + 1 /\ w \in Nat
         /\ x \in p..(p + y - 1) /\ (x = 0 \/ x \in q..(q + z - 1))
    BY <1>1, <1>4, <1>5, <2>1
  <2>2. x \in Nat /\ p <= x /\ x < p + y /\ x # 0 /\ q <= x /\ x < q + z
    <3> HIDE DEF x, p, q, y, z
    <3>1. QED BY <2>1a
  <2>4. CASE j < k
    <3>1. k \in (j + 1)..(Len(ss) + 1) /\ j \in 1..Len(ss)
      BY <1>1, <1>2, <2>4
    <3>2. q + z <= p
      BY <1>2, <1>3, <3>1, LayoutOrder
    <3> HIDE DEF x, p, q, y, z
    <3>3. FALSE
      BY <2>1a, <2>2, <3>2
    <3>4. QED BY <3>3
  <2>5. CASE k < j
    <3>1. j \in (k + 1)..(Len(ss) + 1) /\ k \in 1..Len(ss)
      BY <1>1, <1>2, <2>5
    <3>2. p + y <= q
      BY <1>2, <1>3, <3>1, LayoutOrder
    <3> HIDE DEF x, p, q, y, z
    <3>3. FALSE
      BY <2>1a, <2>2, <3>2
    <3>4. QED BY <3>3
  <2>6. j = k \/ j < k \/ k < j
    BY <1>1
  <2>7. QED BY <2>4, <2>5, <2>6
<1>6. ASSUME NEW k \in 1..n, cell[k] # 0
      PROVE  cell[k] \in Places /\ cell[k] > w /\ cell[k] < hi
  <2>1. k \in 1..(n + 1) /\ k + 1 \in 1..(n + 1)
    BY <1>1
  <2> DEFINE x == cell[k]
             p == at[k]
             y == Len(ss[k])
             r == at[k + 1]
  <2>2. p \in Nat /\ p >= w + 1 /\ y \in Nat /\ r = p + y /\ r <= hi /\ x \in p..(p + y - 1) /\ r \in Nat
    BY <1>1, <1>2, <1>4, <1>6, <2>1
  <2> HIDE DEF x, p, y, r
  <2>3. x \in Nat /\ x # 0 /\ x > w /\ x < hi
    BY <1>1, <2>2
  <2>4. QED BY <2>3 DEF Places, x
<1>7. QED BY <1>2, <1>5, <1>6 DEF n, w, hi

\* Where an edit in place leaves a descriptor alone, it lies where it lay.
LEMMA DescriptorKept ==
  ASSUME NEW c \in Cues, NEW at, Found(c, at), NEW k \in 1..Len(c.descs),
         NEW body \in Cells, Len(body) = Len(BodyOf(c)),
         \A x \in at[k]..(at[k] + Len(DescriptorCells(c.descs[k])) - 1) :
            body[x] = BodyOf(c)[x]
  PROVE  Has(body, at[k], DescriptorCells(c.descs[k]))
<1>1. k \in 1..(Len(c.descs) + 1)
  BY CueTyped
<1>2. /\ at[k] \in Places /\ c.descs[k] \in Descriptors
      /\ Has(BodyOf(c), at[k], DescriptorCells(c.descs[k])) /\ BodyOf(c) \in Cells
  BY <1>1, FoundPlaces, BodyForm
<1>3. DescriptorCells(c.descs[k]) \in Cells
  BY <1>2, DescriptorForm
<1> DEFINE i == at[k]
           s == DescriptorCells(c.descs[k])
           b == BodyOf(c)
<1>4. \A x \in i..(i + Len(s) - 1) : body[x] = b[x]
  OBVIOUS
<1> HIDE DEF i, s, b
<1>5. QED BY <1>2, <1>3, <1>4, HasKept DEF i, s, b

AllLimited(ds, limits) ==
    [k \in DOMAIN ds |-> IF IsLive(ds[k]) THEN Limited(ds[k], limits) ELSE ds[k]]

\* rewrite_delivery_flags_b64 on the section of a cue: the section of the cue
\* with every delivery restricted, and no edit if there is none to restrict.
LEMMA DeliverySection ==
  ASSUME NEW c \in Cues, ~c.enc, NEW limits \in 0..31,
         NEW e, e = Remade(c, c.cmd, AllLimited(c.descs, limits))
  PROVE  /\ e \in Cues
         /\ RewriteDelivery(Encode(c), limits) \in {Encode(e), NoSection}
         /\ RewriteDelivery(Encode(c), limits) = NoSection => e = c
<1> DEFINE n == Len(c.descs)
           b == BodyOf(c)
           s == Encode(c)
           L == LoopOf(c)
           w == WordAt(c)
           hi == LoopEnd(c)
           ds == AllLimited(c.descs, limits)
           len(k) == Len(DescriptorCells(c.descs[k]))
<1>1. PICK at : Found(c, at)
  BY FoundExists
<1> DEFINE starts == [k \in 1..n |-> at[k]]
           cell == [k \in 1..n |-> IF IsLive(c.descs[k]) THEN at[k] + 4 ELSE 0]
           flags == {starts[k] + 4 : k \in {j \in DOMAIN starts : LiveSegmentation(b, starts[j])}}
           body == [x \in DOMAIN b |-> IF x \in flags THEN (b[x] \div 64) * 64 + limits ELSE b[x]]
<1>2. /\ n \in Nat /\ DOMAIN c.descs = 1..n /\ b \in Cells /\ s.body = b /\ CueLies(b, c)
      /\ w \in Nat /\ w >= 1 /\ hi \in Nat /\ w < hi /\ Len(b) \in Nat /\ hi <= Len(b) + 1
      /\ c.cmd \in Commands /\ DOMAIN b = 1..Len(b) /\ \A x \in 1..Len(b) : b[x] \in Nat
  <2>1. n \in Nat /\ DOMAIN c.descs = 1..n
    BY FoundPlaces, <1>1
  <2>2. b \in Cells /\ s.body = b /\ CueLies(b, c) /\ Len(b) \in Nat
    BY EncodeForm, BodyForm
  <2>3. w \in Nat /\ w >= 1 /\ hi \in Nat /\ w < hi /\ hi <= Len(b) + 1 /\ c.cmd \in Commands
    BY FoundExists, CueTyped
  <2> HIDE DEF n, b, s, w, hi
  <2>4. DOMAIN b = 1..Len(b) /\ \A x \in 1..Len(b) : b[x] \in Nat
    BY <2>2 DEF Cells
  <2>5. QED BY <2>1, <2>2, <2>3, <2>4
<1>3. \A k \in 1..n : /\ c.descs[k] \in Descriptors /\ at[k] \in Places /\ at[k] \in Nat
                      /\ Has(b, at[k], DescriptorCells(c.descs[k]))
  <2>1. \A k \in 1..n : k \in 1..(n + 1)
    BY <1>2
  <2>2. /\ \A k \in 1..(n + 1) : at[k] \in Places /\ at[k] \in Nat
        /\ \A k \in 1..n : c.descs[k] \in Descriptors /\ Has(b, at[k], DescriptorCells(c.descs[k]))
    BY FoundPlaces, <1>1
  <2> HIDE DEF n, b
  <2>3. QED BY <2>1, <2>2
<1>4. \A k \in 1..n : /\ LiveSegmentation(b, at[k]) <=> IsLive(c.descs[k])
                      /\ IsLive(c.descs[k]) =>
                           c.descs[k] \in Segmentations /\ SegmentationLies(b, at[k], c.descs[k])
  <2> HIDE DEF n, b
  <2>1. QED BY <1>2, <1>3, DescriptorSeen
<1>5. \A x : x \in flags <=> \E k \in 1..n : IsLive(c.descs[k]) /\ x = at[k] + 4
  <2> HIDE DEF n, b
  <2>1. QED BY <1>4
<1> HIDE DEF flags
<1>6. Chosen(c, at, cell)
  <2> SUFFICES ASSUME NEW k \in 1..n
               PROVE  cell[k] = 0 \/ cell[k] \in at[k]..(at[k] + len(k) - 1)
    BY DEF Chosen
  <2>1. CASE IsLive(c.descs[k])
    <3> DEFINE i == at[k]
               z == len(k)
               d == c.descs[k]
               t == TypeAt(d)
               u == UpidAt(d)
               r == Len(d.rest)
    <3>1. z = t + 1 + r /\ t \in Nat /\ r \in Nat /\ u \in Nat /\ t >= u + 2 /\ u >= 5 /\ i \in Nat
      <4>1. d \in Segmentations /\ i \in Nat
        BY <1>3, <1>4, <2>1
      <4> HIDE DEF d, i
      <4>2. QED BY <4>1, SegmentationForm, SegmentationTyped DEF d
    <3>2. cell[k] = i + 4
      BY <2>1
    <3> HIDE DEF cell, i, z, t, u, r
    <3>3. i + 4 \in i..(i + z - 1)
      BY <3>1
    <3>4. QED BY <3>2, <3>3 DEF i, z
  <2>2. CASE ~IsLive(c.descs[k])
    BY <2>2
  <2>3. QED BY <2>1, <2>2
<1>7. \A k \in 1..n : cell[k] = IF IsLive(c.descs[k]) THEN at[k] + 4 ELSE 0
  OBVIOUS
<1> HIDE DEF cell
<1>8. /\ \A k, j \in 1..n : cell[j] \in at[k]..(at[k] + len(k) - 1) => cell[j] = cell[k]
      /\ \A k \in 1..n : cell[k] = 0 \/ (cell[k] \in Places /\ cell[k] > w /\ cell[k] < hi)
  BY <1>1, <1>6, ChosenOnce
<1> HIDE DEF n, w, hi, b
<1>9. \A k \in 1..n : \A x \in at[k]..(at[k] + len(k) - 1) :
         x \in flags <=> IsLive(c.descs[k]) /\ x = at[k] + 4
  <2> SUFFICES ASSUME NEW k \in 1..n, NEW x \in at[k]..(at[k] + len(k) - 1), x \in flags
               PROVE  IsLive(c.descs[k]) /\ x = at[k] + 4
    BY <1>5
  <2>1. PICK j \in 1..n : IsLive(c.descs[j]) /\ x = at[j] + 4
    BY <1>5
  <2>2. cell[j] = x
    BY <1>7, <2>1
  <2>3. cell[j] = cell[k]
    BY <1>8, <2>2
  <2>4. x # 0
    BY <1>3, <2>1 DEF Places
  <2>5. QED BY <1>7, <2>2, <2>3, <2>4
<1>10. \A x \in flags : x > w /\ x < hi
  <2> SUFFICES ASSUME NEW x \in flags PROVE x > w /\ x < hi
    OBVIOUS
  <2>1. PICK j \in 1..n : IsLive(c.descs[j]) /\ x = at[j] + 4
    BY <1>5
  <2>2. cell[j] = x
    BY <1>7, <2>1
  <2>3. x # 0
    BY <1>3, <2>1 DEF Places
  <2>4. QED BY <1>8, <2>2, <2>3
<1>11. body \in Cells /\ Len(body) = Len(b) /\ DOMAIN body = 1..Len(b)
  <2> DEFINE f(x) == IF x \in flags THEN (b[x] \div 64) * 64 + limits ELSE b[x]
  <2>1. \A x \in 1..Len(b) : f(x) \in Nat
    <3> SUFFICES ASSUME NEW x \in 1..Len(b) PROVE f(x) \in Nat
      OBVIOUS
    <3> DEFINE y == b[x]
    <3>0. limits \in Nat
      OBVIOUS
    <3>1. y \in Nat /\ limits \in Nat
      <4>1. y \in Nat
        BY <1>2 DEF Cells
      <4>2. QED BY <3>0, <4>1
    <3> HIDE DEF y
    <3>2. (y \div 64) * 64 + limits \in Nat
      BY <3>1
    <3>3. QED BY <3>1, <3>2 DEF y
  <2>2. body = [x \in 1..Len(b) |-> f(x)]
    BY <1>2
  <2> HIDE DEF body, f
  <2>3. QED BY <1>2, <2>1, <2>2 DEF Cells
<1>12. \A x \in 1..Len(b) : body[x] = IF x \in flags THEN (b[x] \div 64) * 64 + limits ELSE b[x]
  BY <1>2
<1> HIDE DEF body
<1>13. ds = [k \in 1..n |-> IF IsLive(c.descs[k]) THEN Limited(c.descs[k], limits) ELSE c.descs[k]]
  BY <1>2 DEF AllLimited
<1> HIDE DEF ds
<1>14. \A k \in 1..n : \A x \in at[k]..(at[k] + len(k) - 1) : x \in 1..Len(b)
  <2> SUFFICES ASSUME NEW k \in 1..n, NEW x \in at[k]..(at[k] + len(k) - 1) PROVE x \in 1..Len(b)
    OBVIOUS
  <2> DEFINE i == at[k]
             z == len(k)
             r == at[k + 1]
  <2>1. i \in Nat /\ i >= 1 /\ z \in Nat /\ r = i + z /\ r <= hi /\ x \in i..(i + z - 1) /\ r \in Nat
    <3>1. k + 1 \in 1..(n + 1)
      BY <1>2
    <3>2. r = i + z /\ r <= hi /\ r \in Nat
      BY <1>1, <3>1, FoundPlaces DEF n, hi
    <3>3. i \in Nat /\ i >= 1 /\ z \in Nat
      BY <1>3, DescriptorForm DEF Places
    <3>4. QED BY <3>2, <3>3
  <2> HIDE DEF i, z, r
  <2>2. QED BY <1>2, <2>1
<1>15. ASSUME NEW k \in 1..n
       PROVE  /\ ds[k] \in Descriptors /\ Has(body, at[k], DescriptorCells(ds[k]))
              /\ Len(DescriptorCells(ds[k])) = len(k)
  <2> DEFINE i == at[k]
             d == c.descs[k]
             z == len(k)
  <2>1. \A x \in i..(i + z - 1) : ~(IsLive(d) /\ x = i + 4) => body[x] = b[x]
    BY <1>9, <1>12, <1>14
  <2>2. CASE IsLive(d)
    <3>1. d \in Segmentations /\ SegmentationLies(b, i, d) /\ i \in Places
      BY <1>3, <1>4, <2>2
    <3>2. i + 4 \in i..(i + z - 1)
      <4>1. cell[k] = i + 4 /\ i + 4 # 0
        BY <1>3, <1>7, <2>2 DEF Places
      <4>2. cell[k] = 0 \/ cell[k] \in i..(i + z - 1)
        BY <1>6 DEF Chosen, n
      <4>3. QED BY <4>1, <4>2
    <3>3. body[i + 4] = (b[i + 4] \div 64) * 64 + limits
      BY <1>9, <1>12, <1>14, <2>2, <3>2
    <3>4. \A x \in i..(i + Len(DescriptorCells(d)) - 1) : x # i + 4 => body[x] = b[x]
      BY <2>1
    <3>5. ds[k] = Limited(d, limits)
      BY <1>13, <2>2
    <3> HIDE DEF i, d
    <3>6. Limited(d, limits) \in Segmentations
            /\ Len(DescriptorCells(Limited(d, limits))) = Len(DescriptorCells(d))
            /\ Has(body, i, DescriptorCells(Limited(d, limits)))
      <4>1. b \in Cells /\ body \in Cells /\ Len(body) = Len(b)
        BY <1>2, <1>11
      <4>2. QED BY <3>1, <3>3, <3>4, <4>1, LimitsWritten, ZenonT(30)
    <3>7. Limited(d, limits) \in Descriptors
      BY <3>6 DEF Descriptors
    <3>8. QED BY <3>5, <3>6, <3>7 DEF i, d
  <2>3. CASE ~IsLive(d)
    <3>1. ds[k] = d
      BY <1>13, <2>3
    <3>2. \A x \in i..(i + z - 1) : body[x] = b[x]
      BY <2>1, <2>3
    <3>3. Has(body, i, DescriptorCells(d))
      BY <1>1, <1>11, <3>2, DescriptorKept DEF n, b
    <3>4. QED BY <1>3, <3>1, <3>3
  <2>4. QED BY <2>2, <2>3
<1>16. ds \in Seq(Descriptors) /\ Len(ds) = n
  BY <1>2, <1>13, <1>15
<1>17. SameLengths(c, c.cmd, ds)
  BY <1>15, <1>16 DEF SameLengths, n
<1>18. Has(body, 1, CommandCells(c.cmd))
  <2> DEFINE m == CommandCells(c.cmd)
             l == Len(m)
  <2>1. m \in Cells /\ l \in Nat /\ w = l + 1 /\ Has(b, 1, m)
    BY <1>2, CommandTyped DEF WordAt, CueLies, w
  <2> HIDE DEF m
  <2>2. \A x \in 1..(1 + l - 1) : body[x] = b[x]
    <3> HIDE DEF l
    <3>1. \A x \in 1..(1 + l - 1) : x \in 1..Len(b) /\ ~(x > w)
      BY <1>2, <2>1
    <3>2. QED BY <1>10, <1>12, <3>1
  <2>3. 1 \in Places
    BY DEF Places
  <2>4. QED BY <1>2, <1>11, <2>1, <2>2, <2>3, HasKept DEF m
<1>19. body[w] = b[w]
  <2>1. w \in 1..Len(b) /\ ~(w > w)
    BY <1>2
  <2>2. QED BY <1>10, <1>12, <2>1
<1>20. \A x \in hi..Len(body) : body[x] = b[x]
  <2>1. \A x \in hi..Len(body) : x \in 1..Len(b) /\ ~(x < hi)
    BY <1>2, <1>11
  <2>2. QED BY <1>10, <1>12, <2>1
<1>21. e \in Cues /\ Resealed(s, body) = Encode(e)
  <2>1. \A k \in 1..Len(ds) : Has(body, at[k], DescriptorCells(ds[k]))
    BY <1>15, <1>16
  <2>2. e = Remade(c, c.cmd, ds)
    BY DEF ds
  <2>3. c.cmd \in Commands /\ body \in Cells /\ Len(body) = Len(BodyOf(c))
    BY <1>2, <1>11 DEF b
  <2>4. body[WordAt(c)] = BodyOf(c)[WordAt(c)]
          /\ \A x \in LoopEnd(c)..Len(body) : body[x] = BodyOf(c)[x]
    BY <1>19, <1>20 DEF b, w, hi
  <2> HIDE DEF s
  <2>5. /\ Remade(c, c.cmd, ds) \in Cues
        /\ Resealed(Encode(c), body) = Encode(Remade(c, c.cmd, ds))
    BY <1>1, <1>16, <1>17, <1>18, <2>1, <2>3, <2>4, CellsReplaced
  <2>6. QED BY <2>2, <2>5, Zenon DEF s
<1>22. RewriteDelivery(s, limits) = IF flags = {} THEN NoSection ELSE Resealed(s, body)
  <2>1. LocateLoop(s) = L /\ L # NoLoop /\ Starts(b, L) = starts /\ ~Overruns(b, L, starts)
    BY <1>1, LoopRead DEF b, n
  <2> HIDE DEF L, starts, s
  <2>2. RewriteDelivery(s, limits) = RewriteDeliveryIn(s, L, starts, limits)
    BY <1>2, <2>1 DEF RewriteDelivery
  <2>3. QED BY <1>2, <2>1, <2>2 DEF RewriteDeliveryIn, Resealed, flags, body
<1>23. flags = {} => e = c
  <2> SUFFICES ASSUME flags = {} PROVE e = c
    OBVIOUS
  <2>1. \A k \in 1..n : ~IsLive(c.descs[k])
    BY <1>5
  <2>2. ds = [k \in 1..n |-> c.descs[k]]
    BY <1>13, <2>1
  <2>3. c.descs = [k \in 1..n |-> c.descs[k]]
    <3>1. c.descs \in Seq(Descriptors)
      BY CueTyped
    <3>2. QED BY <1>2, <3>1
  <2>4. e = [enc |-> c.enc, cmd |-> c.cmd, descs |-> ds, pad |-> c.pad]
    BY DEF Remade, ds
  <2>5. QED BY <2>2, <2>3, <2>4, CueTyped
<1>24. RewriteDelivery(s, limits) \in {Encode(e), NoSection}
         /\ (RewriteDelivery(s, limits) = NoSection => e = c)
  <2> HIDE DEF s
  <2>1. CASE flags = {}
    BY <1>22, <1>23, <2>1
  <2>2. CASE flags # {}
    <3>1. RewriteDelivery(s, limits) = Encode(e)
      BY <1>21, <1>22, <2>2
    <3>2. Encode(e) # NoSection
      <4>1. Encode(e).table = 252 /\ NoSection.table = 0
        BY <1>21, EncodeForm DEF NoSection
      <4>2. QED BY <4>1
    <3>3. QED BY <3>1, <3>2
  <2>3. QED BY <2>1, <2>2
<1>25. QED BY <1>21, <1>24, Zenon DEF s

\* A splice_insert with another break duration.
Breaking(m, t) == [m EXCEPT !.dur = <<t>>]

LEMMA BreakWritten ==
  ASSUME NEW b \in Cells, NEW m \in Inserts, m.dur # NoneNamed, Has(b, 1, InsertCells(m)),
         NEW body \in Cells, Len(body) = Len(b), NEW v \in Nat, body[BreakAt(m) + 1] = v,
         \A x \in 1..Len(InsertCells(m)) : x # BreakAt(m) + 1 => body[x] = b[x]
  PROVE  /\ Breaking(m, v) \in Inserts
         /\ Len(InsertCells(Breaking(m, v))) = Len(InsertCells(m))
         /\ Has(body, 1, InsertCells(Breaking(m, v)))
<1> DEFINE e == Breaking(m, v)
           s1 == <<m.event, 0, InsertFlags(m)>>
           s2 == IF m.program THEN <<>> ELSE <<Len(m.tags)>>
           s3 == FlattenSeq(InsertParts(m))
           s5 == <<m.ids>>
           l2 == Len(s2)
           l3 == Len(s3)
           i == PartsAt(m)
           j == BreakAt(m)
           z == Len(InsertCells(m))
<1>1. <<v>> \in Maybe(Nat) /\ Len(<<v>>) = 1 /\ <<v>> # NoneNamed
  <2> DEFINE C == Nat
  <2>1. v \in C
    OBVIOUS
  <2> HIDE DEF C
  <2>2. <<v>> \in Maybe(C)
    BY <2>1, One
  <2>3. QED BY <2>2 DEF C, NoneNamed
<1>2. e \in Inserts
  BY <1>1 DEF Inserts, Breaking
<1>3. /\ e.event = m.event /\ e.out = m.out /\ e.program = m.program /\ e.imm = m.imm
      /\ e.tags = m.tags /\ e.times = m.times /\ e.auto = m.auto /\ e.dur = <<v>>
      /\ e.ids = m.ids
  BY DEF Inserts, Breaking
<1> HIDE DEF e
<1>4. InsertFlags(e) = InsertFlags(m)
  <2>1. (e.dur # NoneNamed) = (m.dur # NoneNamed)
    BY <1>1, <1>3
  <2>2. QED BY <1>3, <2>1 DEF InsertFlags
<1>5. InsertParts(e) = InsertParts(m) /\ PartsAt(e) = PartsAt(m)
  BY <1>3 DEF InsertParts, PartsAt
<1>6. BreakAt(e) = BreakAt(m)
  BY <1>5 DEF BreakAt
<1>7. BreakCells(e) = <<m.auto, v>> /\ Len(BreakCells(e)) = 2 /\ Len(BreakCells(m)) = 2
        /\ BreakCells(m) = <<m.auto, m.dur[1]>>
  <2>1. e.dur # NoneNamed /\ e.dur[1] = v
    BY <1>1, <1>3
  <2>2. BreakCells(e) = <<m.auto, v>>
    BY <1>3, <2>1 DEF BreakCells
  <2>3. Len(BreakCells(e)) = 2 /\ Len(BreakCells(m)) = 2
    BY <1>2, <2>1, BreakTyped
  <2>4. QED BY <2>2, <2>3 DEF BreakCells
<1>8. Len(InsertCells(e)) = z /\ z = j + 2
  <2>1. z = j + 2
    BY <1>7, InsertForm
  <2>2. Len(InsertCells(e)) = BreakAt(e) + 2
    BY <1>2, <1>7, InsertForm
  <2>3. QED BY <1>6, <2>1, <2>2
<1>9. InsertLies(b, m)
  BY InsertForm
<1>10. /\ Has(b, 1, s1) /\ Has(b, 4, s2) /\ Has(b, i, s3) /\ Has(b, j, <<m.auto, m.dur[1]>>)
       /\ Has(b, j + 2, s5)
  BY <1>7, <1>9 DEF InsertLies
<1>11. /\ i \in Nat /\ i >= 4 /\ j \in Nat /\ j >= 4 /\ l2 \in Nat /\ l3 \in Nat
       /\ i = 4 + l2 /\ j = i + l3
  <2>1. i \in Nat /\ i >= 4 /\ j \in Nat /\ j >= 4 /\ l3 \in Nat /\ j = i + l3
    BY InsertPartsTyped DEF BreakAt
  <2>2. l2 \in Nat /\ i = 4 + l2
    <3>1. CASE m.program
      BY <3>1 DEF PartsAt
    <3>2. CASE ~m.program
      BY <3>2 DEF PartsAt
    <3>3. QED BY <3>1, <3>2
  <2>3. QED BY <2>1, <2>2
<1>12. s1 \in Cells /\ s2 \in Cells /\ s3 \in Cells /\ s5 \in Cells
  <2> DEFINE f == InsertFlags(m)
             g == Len(m.tags)
  <2>1. f \in Nat /\ m.event \in Nat /\ m.ids \in Nat /\ g \in Nat
    BY InsertTyped, BreakTyped
  <2> HIDE DEF f, g
  <2>2. <<m.event, 0, f>> \in Cells /\ <<m.ids>> \in Cells /\ <<g>> \in Cells /\ <<>> \in Cells
    BY <2>1 DEF Cells
  <2>3. s1 \in Cells /\ s5 \in Cells
    BY <2>2 DEF f
  <2>4. s2 \in Cells
    BY <2>2 DEF g
  <2>5. s3 \in Cells
    BY InsertPartsTyped
  <2>6. QED BY <2>3, <2>4, <2>5
<1>13. Len(s1) = 3 /\ Len(s5) = 1
  OBVIOUS
<1>14. \A x \in 1..z : x # j + 1 => body[x] = b[x]
  OBVIOUS
<1> HIDE DEF s1, s2, s3, s5, i, j, z
<1>15. /\ \A x \in 1..(1 + 3 - 1) : body[x] = b[x]
       /\ \A x \in 4..(4 + l2 - 1) : body[x] = b[x]
       /\ \A x \in i..(i + l3 - 1) : body[x] = b[x]
       /\ \A x \in (j + 2)..(j + 2 + 1 - 1) : x \in 1..z => body[x] = b[x]
       /\ body[j] = b[j]
  <2> HIDE DEF l2, l3
  <2>1. /\ \A x \in 1..(1 + 3 - 1) : x \in 1..z /\ x # j + 1
        /\ \A x \in 4..(4 + l2 - 1) : x \in 1..z /\ x # j + 1
        /\ \A x \in i..(i + l3 - 1) : x \in 1..z /\ x # j + 1
        /\ \A x \in (j + 2)..(j + 2 + 1 - 1) : x # j + 1
        /\ j \in 1..z /\ j # j + 1
    BY <1>8, <1>11
  <2>2. QED BY <1>14, <2>1
<1>16. j + 2 \in Places /\ 1 \in Places /\ 4 \in Places /\ i \in Places /\ j \in Places
  BY <1>11 DEF Places
<1>17. \A x \in (j + 2)..(j + 2 + 1 - 1) : body[x] = b[x]
  <2>1. \A x \in (j + 2)..(j + 2 + 1 - 1) : x \in 1..z
    BY <1>8, <1>11
  <2>2. QED BY <1>15, <2>1
<1>18. Has(body, 1, s1)
  BY <1>10, <1>12, <1>13, <1>15, <1>16, HasKept
<1>19. Has(body, 4, s2)
  BY <1>10, <1>12, <1>15, <1>16, HasKept DEF l2
<1>20. Has(body, i, s3)
  BY <1>10, <1>12, <1>15, <1>16, HasKept DEF l3
<1>21. Has(body, j + 2, s5)
  BY <1>10, <1>12, <1>13, <1>16, <1>17, HasKept
<1>22. Has(body, j, <<m.auto, v>>)
  <2>1. j + 1 \in DOMAIN b /\ b[j] = m.auto
    BY <1>10, <1>16, HasTwo
  <2>2. DOMAIN body = DOMAIN b
    BY DEF Cells
  <2>3. body[j] = m.auto /\ body[j + 1] = v /\ j + 1 \in DOMAIN body
    BY <1>15, <2>1, <2>2 DEF j
  <2>4. QED BY <1>16, <2>3, HasTwo
<1>23. InsertLies(body, e)
  BY <1>3, <1>4, <1>5, <1>6, <1>7, <1>18, <1>19, <1>20, <1>21, <1>22
     DEF InsertLies, s1, s2, s3, s5, i, j
<1>24. Has(body, 1, InsertCells(e))
  BY <1>2, <1>23, InsertForm
<1>25. QED BY <1>2, <1>8, <1>24 DEF e, z

HasBreakDuration(m) == m.type = "insert" /\ m.dur # NoneNamed

BreakCell(m) == IF HasBreakDuration(m) THEN BreakAt(m) + 1 ELSE 0

\* locate_break_duration finds the duration of the command, if it has one.
LEMMA BreakFound ==
  ASSUME NEW c \in Cues, ~c.enc
  PROVE  /\ LocateBreakDuration(Encode(c)) = {BreakCell(c.cmd)}
         /\ HasBreakDuration(c.cmd) =>
              /\ c.cmd \in Inserts /\ CommandCells(c.cmd) = InsertCells(c.cmd)
              /\ BreakAt(c.cmd) \in Nat /\ BreakAt(c.cmd) >= 4
              /\ BreakAt(c.cmd) + 2 = Len(CommandCells(c.cmd))
              /\ BreakAt(c.cmd) + 1 < WordAt(c)
              /\ BodyOf(c)[BreakAt(c.cmd) + 1] = c.cmd.dur[1]
<1> DEFINE m == c.cmd
           s == Encode(c)
           b == BodyOf(c)
           j == BreakAt(m)
           l == Len(CommandCells(m))
           w == WordAt(c)
<1>1. /\ m \in Commands /\ b \in Cells /\ s.body = b /\ CueLies(b, c) /\ IsPlain(s)
      /\ s.type = TypeOf(m) /\ w = l + 1 /\ l \in Nat /\ Len(b) \in Nat
      /\ Has(b, 1, CommandCells(m))
  <2>1. m \in Commands /\ l \in Nat
    BY CueTyped, CommandTyped
  <2>2. b \in Cells /\ s.body = b /\ CueLies(b, c) /\ IsPlain(s) /\ s.type = TypeOf(m)
          /\ Len(b) \in Nat
    BY EncodeForm, BodyForm DEF IsPlain
  <2>3. w = l + 1
    BY DEF WordAt
  <2>4. QED BY <2>1, <2>2, <2>3 DEF CueLies
<1>2. s.type = 5 <=> m.type = "insert"
  <2>1. m.type \in {"null", "bandwidth", "signal", "insert"}
    BY <1>1, CommandTyped
  <2>2. QED BY <1>1, <2>1 DEF TypeOf
<1>3. m.type # "insert" => LocateBreakDuration(s) = {0}
  <2> HIDE DEF s, b, m
  <2>1. QED BY <1>1, <1>2 DEF LocateBreakDuration
<1>3a. ASSUME m.type = "insert", l >= 2, NEW t \in Nat, t <= w, SpliceInsert(b).ticks = t
       PROVE  LocateBreakDuration(s) = {t}
  <2>1. w < LoopEnd(c) /\ LoopEnd(c) <= Len(b) + 1 /\ LoopEnd(c) \in Nat
    BY FoundExists DEF Places
  <2> DEFINE hi == LoopEnd(c)
  <2> HIDE DEF s, b, m, l, w, hi
  <2>2. Len(b) >= 3 /\ t <= Len(b) + 2
    BY <1>1, <1>3a, <2>1 DEF hi
  <2>3. b # <<>> /\ Len(b) # 1 /\ Len(b) # 2
    <3>1. Len(b) \in Nat /\ Len(b) >= 3
      BY <1>1, <2>2
    <3>2. b = <<>> => Len(b) = 0
      OBVIOUS
    <3>3. b # <<>>
      BY <3>1, <3>2
    <3> DEFINE q == Len(b)
    <3>4. q \in Nat /\ q >= 3
      BY <3>1
    <3> HIDE DEF q
    <3>5. q # 1 /\ q # 2
      BY <3>4
    <3>6. QED BY <3>3, <3>5 DEF q
  <2>4. s.type = 5
    BY <1>2, <1>3a
  <2>5. QED BY <1>1, <1>3a, <2>2, <2>3, <2>4 DEF LocateBreakDuration
<1> HIDE DEF s
<1>4. m.type = "insert" => CommandCells(m) = InsertCells(m)
  BY DEF CommandCells
<1>5. CASE HasBreakDuration(m)
  <2>1. m.type = "insert" /\ m.dur # NoneNamed
    BY <1>5 DEF HasBreakDuration
  <2>2. m \in Inserts
    <3>1. m.cancel => m.dur = NoneNamed
      <4>1. m.cancel => m = [type |-> "insert", event |-> m.event, cancel |-> TRUE, dur |-> NoneNamed]
        BY <1>1, <2>1, CommandTyped
      <4>2. SUFFICES ASSUME m.cancel PROVE m.dur = NoneNamed
        OBVIOUS
      <4> DEFINE x == [type |-> "insert", event |-> m.event, cancel |-> TRUE, dur |-> NoneNamed]
      <4>3. x.dur = NoneNamed
        OBVIOUS
      <4>4. m = x
        BY <4>1, <4>2
      <4> HIDE DEF x, m
      <4>5. QED BY <4>3, <4>4
    <3>2. QED BY <1>1, <2>1, <3>1, CommandTyped
  <2> HIDE DEF b, m
  <2>3. CommandCells(m) = InsertCells(m) /\ Has(b, 1, InsertCells(m))
    BY <1>1, <1>4, <2>1
  <2>4. SpliceInsert(b).ticks = j + 1
    <3>1. SpliceInsert(b) = [next |-> Len(InsertCells(m)) + 1,
                             ticks |-> IF m.dur # NoneNamed THEN BreakAt(m) + 1 ELSE 0,
                             cmd |-> m]
      BY <1>1, <2>2, <2>3, InsertRead
    <3>2. QED BY <2>1, <3>1
  <2>5. j \in Nat /\ j >= 4 /\ j + 2 = l /\ BreakCells(m) = <<m.auto, m.dur[1]>>
    <3>1. Len(BreakCells(m)) = 2
      BY <2>1, <2>2, BreakTyped
    <3>2. l = j + 2
      BY <2>2, <2>3, <3>1, InsertForm
    <3>3. j \in Nat /\ j >= 4
      BY <2>2, InsertPartsTyped
    <3>4. BreakCells(m) = <<m.auto, m.dur[1]>>
      BY <2>1 DEF BreakCells
    <3>5. QED BY <3>2, <3>3, <3>4
  <2>6. b[j + 1] = m.dur[1] /\ j + 1 \in DOMAIN b
    <3>1. InsertLies(b, m)
      BY <1>1, <2>2, <2>3, InsertForm
    <3>2. Has(b, j, <<m.auto, m.dur[1]>>)
      BY <2>5, <3>1 DEF InsertLies
    <3>3. j \in Places
      BY <2>5 DEF Places
    <3> HIDE DEF j
    <3>4. QED BY <1>1, <3>2, <3>3, HasTwo
  <2> HIDE DEF j, l, w
  <2>7. j + 1 < w /\ j + 1 <= w /\ j + 1 \in Nat /\ l >= 2
    BY <1>1, <2>5
  <2>8. LocateBreakDuration(s) = {j + 1}
    BY <1>3a, <2>1, <2>4, <2>7
  <2>9. BreakCell(m) = j + 1
    BY <1>5 DEF BreakCell, j
  <2>10. QED BY <1>5, <2>2, <2>3, <2>5, <2>6, <2>7, <2>8, <2>9 DEF s, m, b, j, l, w
<1>6. CASE ~HasBreakDuration(m)
  <2>0. BreakCell(m) = 0
    BY <1>6 DEF BreakCell
  <2>1. CASE m.type # "insert"
    BY <1>3, <1>6, <2>0, <2>1 DEF s
  <2>2. CASE m.type = "insert"
    <3>1. m.dur = NoneNamed
      BY <1>6, <2>2 DEF HasBreakDuration
    <3>2. SpliceInsert(b).ticks = 0 /\ l >= 2
      <4>1. CASE m.cancel
        <5>1. m.event \in Nat
                /\ m = [type |-> "insert", event |-> m.event, cancel |-> TRUE, dur |-> NoneNamed]
          BY <1>1, <2>2, <4>1, CommandTyped
        <5>2. InsertCells(m) = <<m.event, 128>>
          BY <4>1 DEF InsertCells
        <5>3. Has(b, 1, <<m.event, 128>>)
          BY <1>1, <1>4, <2>2, <5>2
        <5>3a. l = 2
          BY <1>4, <2>2, <5>2
        <5> HIDE DEF b, m, l
        <5>4. 1 \in Places /\ 1 + 1 = 2
          BY DEF Places
        <5>5. At(b, 1 + 1) = 128
          BY <1>1, <5>3, <5>4, HasAtTwo
        <5>6. Bit(At(b, 2), 128)
          BY <5>4, <5>5 DEF Bit
        <5>7. QED BY <5>3a, <5>6 DEF SpliceInsert
      <4>2. CASE ~m.cancel
        <5>1. m \in Inserts
          BY <1>1, <2>2, <4>2, CommandTyped
        <5>2. Has(b, 1, InsertCells(m))
          BY <1>1, <1>4, <2>2
        <5>2a. l = BreakAt(m) + Len(BreakCells(m)) /\ Len(BreakCells(m)) \in Nat
          BY <1>4, <2>2, <5>1, InsertForm, BreakTyped, LenProperties DEF Cells
        <5>2b. BreakAt(m) \in Nat /\ BreakAt(m) >= 4
          BY <5>1, InsertPartsTyped
        <5> HIDE DEF b, m, l
        <5>3. SpliceInsert(b) = [next |-> Len(InsertCells(m)) + 1,
                                 ticks |-> IF m.dur # NoneNamed THEN BreakAt(m) + 1 ELSE 0,
                                 cmd |-> m]
          BY <1>1, <5>1, <5>2, InsertRead
        <5>4. QED BY <3>1, <5>2a, <5>2b, <5>3
      <4>3. QED BY <4>1, <4>2
    <3>3. 0 \in Nat /\ 0 <= w
      <4> HIDE DEF w, l
      <4>1. QED BY <1>1
    <3>4. LocateBreakDuration(s) = {0}
      BY <1>3a, <2>2, <3>2, <3>3
    <3>5. QED BY <1>6, <2>0, <3>4 DEF s
  <2>3. QED BY <2>1, <2>2
<1>7. QED BY <1>5, <1>6

IsTimed(d) == IsLive(d) /\ d.dur # NoneNamed

AllTimed(ds, f) ==
    [k \in DOMAIN ds |-> IF IsTimed(ds[k]) THEN Lasting(ds[k], f[ds[k].dur[1]] % T40) ELSE ds[k]]

BreakMapped(m, f) == IF HasBreakDuration(m) THEN Breaking(m, f[m.dur[1]] % T33) ELSE m

IsMap(f) == f \in [Nat -> Nat]

\* map_durations with a function for the closure.
MappedSection(s, brk, f) == MapDurations(s, brk, LAMBDA t : f[t])

\* The cells of a section the duration edits change, and the body they give it.
DurationCells(s) ==
    LET L == LocateLoop(s)
        at == IF L = NoLoop THEN <<>> ELSE Starts(s.body, L)
    IN  {SegDurationCell(s.body, at[k]) : k \in {n \in DOMAIN at : After(s.body, at[n]) <= L.hi}}

MappedBody(s, brk, f) ==
    [x \in DOMAIN s.body |->
        IF x = brk THEN f[s.body[x]] % T33
        ELSE IF x \in DurationCells(s) THEN f[s.body[x]] % T40 ELSE s.body[x]]

MappedIf(s, brk, body) ==
    IF brk = 0 /\ DurationCells(s) \subseteq {0} THEN NoSection
    ELSE IF brk > Len(s.body) + 1 THEN Panicked ELSE Resealed(s, body)

LEMMA MappedForm ==
  ASSUME NEW s, NEW brk, NEW f
  PROVE  MappedSection(s, brk, f) = MappedIf(s, brk, MappedBody(s, brk, f))
<1> DEFINE b == s.body
           L == LocateLoop(s)
           at == IF L = NoLoop THEN <<>> ELSE Starts(b, L)
           segs == {SegDurationCell(b, at[k]) : k \in {n \in DOMAIN at : After(b, at[n]) <= L.hi}}
           body == [i \in DOMAIN b |-> IF i = brk THEN f[b[i]] % T33
                                       ELSE IF i \in segs THEN f[b[i]] % T40 ELSE b[i]]
<1>1. MappedSection(s, brk, f) =
        IF brk = 0 /\ segs \subseteq {0} THEN NoSection
        ELSE IF brk > Len(b) + 1 THEN Panicked ELSE Sealed([s EXCEPT !.body = body])
  BY DEF MappedSection, MapDurations
<1>2. segs = DurationCells(s)
  BY DEF DurationCells
<1>3. body = MappedBody(s, brk, f)
  <2> HIDE DEF segs
  <2>1. QED BY <1>2, Zenon DEF MappedBody
<1>4. Sealed([s EXCEPT !.body = body]) = Resealed(s, body)
  BY Zenon DEF Resealed
<1> HIDE DEF segs, body
<1>5. QED BY <1>1, <1>2, <1>3, <1>4, Zenon DEF MappedIf

\* Replacing the durations, and adding to them, are such maps.
LEMMA BreakMaps ==
  ASSUME NEW s \in Sections, NEW brk, NEW ticks \in Nat, NEW delta \in Int
  PROVE  /\ RewriteBreak(s, brk, ticks) = MappedSection(s, brk, [t \in Nat |-> ticks])
         /\ AdjustBreak(s, brk, delta) = MappedSection(s, brk, [t \in Nat |-> AtLeast0(t + delta)])
<1> DEFINE b == s.body
           L == LocateLoop(s)
           at == IF L = NoLoop THEN <<>> ELSE Starts(b, L)
           segs == {SegDurationCell(b, at[k]) : k \in {n \in DOMAIN at : After(b, at[n]) <= L.hi}}
           one == [t \in Nat |-> ticks]
           two == [t \in Nat |-> AtLeast0(t + delta)]
           body1 == [i \in DOMAIN b |-> IF i = brk THEN ticks % T33
                                        ELSE IF i \in segs THEN ticks % T40 ELSE b[i]]
           body2 == [i \in DOMAIN b |-> IF i = brk THEN AtLeast0(b[i] + delta) % T33
                                        ELSE IF i \in segs THEN AtLeast0(b[i] + delta) % T40 ELSE b[i]]
<1>1. RewriteBreak(s, brk, ticks) =
        IF brk = 0 /\ segs \subseteq {0} THEN NoSection
        ELSE IF brk > Len(b) + 1 THEN Panicked ELSE Sealed([s EXCEPT !.body = body1])
  BY DEF RewriteBreak, MapDurations
<1>2. AdjustBreak(s, brk, delta) =
        IF brk = 0 /\ segs \subseteq {0} THEN NoSection
        ELSE IF brk > Len(b) + 1 THEN Panicked ELSE Sealed([s EXCEPT !.body = body2])
  BY DEF AdjustBreak, MapDurations
<1>3. segs = DurationCells(s)
  BY DEF DurationCells
<1>4. \A i \in DOMAIN b : b[i] \in Nat
  BY SMTT(30) DEF Sections
<1> HIDE DEF segs
<1>5. \A i \in DOMAIN b : one[b[i]] = ticks /\ two[b[i]] = AtLeast0(b[i] + delta)
  BY <1>4
<1> HIDE DEF one, two
<1>6. body1 = MappedBody(s, brk, one)
  BY <1>3, <1>5 DEF MappedBody
<1>7. body2 = MappedBody(s, brk, two)
  BY <1>3, <1>5 DEF MappedBody
<1> HIDE DEF body1, body2
<1>8. /\ RewriteBreak(s, brk, ticks) = MappedIf(s, brk, body1)
      /\ AdjustBreak(s, brk, delta) = MappedIf(s, brk, body2)
  BY <1>1, <1>2, <1>3, Zenon DEF MappedIf, Resealed
<1>9. /\ MappedSection(s, brk, one) = MappedIf(s, brk, MappedBody(s, brk, one))
      /\ MappedSection(s, brk, two) = MappedIf(s, brk, MappedBody(s, brk, two))
  BY MappedForm
<1>10. QED BY <1>6, <1>7, <1>8, <1>9, Zenon DEF one, two

\* The duration edits on the section of a cue: the section of the cue with
\* every duration mapped, and no edit if it has none.
LEMMA DurationSection ==
  ASSUME NEW c \in Cues, ~c.enc, NEW f, IsMap(f),
         NEW e, e = Remade(c, BreakMapped(c.cmd, f), AllTimed(c.descs, f))
  PROVE  /\ e \in Cues
         /\ MappedSection(Encode(c), BreakCell(c.cmd), f) \in {Encode(e), NoSection}
         /\ MappedSection(Encode(c), BreakCell(c.cmd), f) = NoSection => e = c
<1> DEFINE n == Len(c.descs)
           b == BodyOf(c)
           s == Encode(c)
           L == LoopOf(c)
           w == WordAt(c)
           hi == LoopEnd(c)
           m == c.cmd
           cmd == BreakMapped(m, f)
           ds == AllTimed(c.descs, f)
           len(k) == Len(DescriptorCells(c.descs[k]))
<1>1. PICK at : Found(c, at)
  BY FoundExists
<1> DEFINE starts == [k \in 1..n |-> at[k]]
           place(k) == at[k] + 5 + Len(Components(c.descs[k]))
           cell == [k \in 1..n |-> IF IsTimed(c.descs[k]) THEN place(k) ELSE 0]
           segs == {SegDurationCell(b, starts[k]) :
                      k \in {j \in DOMAIN starts : After(b, starts[j]) <= L.hi}}
           brk == BreakCell(m)
           body == [x \in DOMAIN b |-> IF x = brk THEN f[b[x]] % T33
                                       ELSE IF x \in segs THEN f[b[x]] % T40 ELSE b[x]]
<1>2. /\ n \in Nat /\ DOMAIN c.descs = 1..n /\ b \in Cells /\ s.body = b /\ CueLies(b, c)
      /\ w \in Nat /\ w >= 1 /\ hi \in Nat /\ w < hi /\ Len(b) \in Nat /\ hi <= Len(b) + 1
      /\ m \in Commands /\ DOMAIN b = 1..Len(b) /\ \A x \in 1..Len(b) : b[x] \in Nat
  <2>1. n \in Nat /\ DOMAIN c.descs = 1..n
    BY FoundPlaces, <1>1
  <2>2. b \in Cells /\ s.body = b /\ CueLies(b, c) /\ Len(b) \in Nat
    BY EncodeForm, BodyForm
  <2>3. w \in Nat /\ w >= 1 /\ hi \in Nat /\ w < hi /\ hi <= Len(b) + 1 /\ m \in Commands
    BY FoundExists, CueTyped
  <2> HIDE DEF n, b, s, w, hi, m
  <2>4. DOMAIN b = 1..Len(b) /\ \A x \in 1..Len(b) : b[x] \in Nat
    BY <2>2 DEF Cells
  <2>5. QED BY <2>1, <2>2, <2>3, <2>4
<1>3. \A k \in 1..n : /\ c.descs[k] \in Descriptors /\ at[k] \in Places /\ at[k] \in Nat
                      /\ Has(b, at[k], DescriptorCells(c.descs[k]))
  <2>1. \A k \in 1..n : k \in 1..(n + 1)
    BY <1>2
  <2>2. /\ \A k \in 1..(n + 1) : at[k] \in Places /\ at[k] \in Nat
        /\ \A k \in 1..n : c.descs[k] \in Descriptors /\ Has(b, at[k], DescriptorCells(c.descs[k]))
    BY FoundPlaces, <1>1
  <2> HIDE DEF n, b
  <2>3. QED BY <2>1, <2>2
<1>4. \A k \in 1..n : IsTimed(c.descs[k]) =>
         /\ c.descs[k] \in Segmentations /\ SegmentationLies(b, at[k], c.descs[k])
         /\ c.descs[k].dur # NoneNamed
  <2> HIDE DEF n, b
  <2>1. QED BY <1>2, <1>3, DescriptorSeen DEF IsTimed
<1>5. \A k \in 1..n : cell[k] = SegDurationCell(b, at[k])
  <2> SUFFICES ASSUME NEW k \in 1..n PROVE cell[k] = SegDurationCell(b, at[k])
    OBVIOUS
  <2> DEFINE d == c.descs[k]
             i == at[k]
  <2>1. b \in Cells /\ i \in Places /\ d \in Descriptors /\ Has(b, i, DescriptorCells(d))
    BY <1>2, <1>3
  <2>2. cell[k] = IF IsTimed(d) THEN i + 5 + Len(Components(d)) ELSE 0
    OBVIOUS
  <2> HIDE DEF b, i, d, cell
  <2>3. CASE IsLive(d)
    BY <2>1, <2>2, <2>3, DescriptorSeen DEF IsTimed, i
  <2>4. CASE ~IsLive(d)
    BY <2>1, <2>2, <2>4, DescriptorSeen DEF IsTimed, i
  <2>5. QED BY <2>3, <2>4
<1>6. \A x : x \in segs <=> \E k \in 1..n : x = cell[k]
  <2>1. L.hi = hi /\ \A k \in 1..n : After(b, at[k]) <= hi
    <3>1. L.hi = hi
      BY DEF LoopOf
    <3>2. \A k \in 1..n : After(b, at[k]) <= hi
      BY <1>1, FoundPlaces
    <3>3. QED BY <3>1, <3>2
  <2> HIDE DEF L, hi, b, n, cell
  <2>2. {j \in DOMAIN starts : After(b, starts[j]) <= L.hi} = 1..n
    BY <2>1
  <2>3. segs = {SegDurationCell(b, starts[k]) : k \in 1..n}
    BY <2>2
  <2> HIDE DEF segs
  <2>4. QED BY <1>5, <2>3
<1> HIDE DEF segs
<1>7. Chosen(c, at, cell)
  <2> SUFFICES ASSUME NEW k \in 1..n
               PROVE  cell[k] = 0 \/ cell[k] \in at[k]..(at[k] + len(k) - 1)
    BY DEF Chosen
  <2>1. CASE IsTimed(c.descs[k])
    <3> DEFINE i == at[k]
               z == len(k)
               d == c.descs[k]
               t == TypeAt(d)
               u == UpidAt(d)
               r == Len(d.rest)
               l == Len(Components(d))
               q == Len(d.dur)
    <3>1. /\ z = t + 1 + r /\ t \in Nat /\ r \in Nat /\ u \in Nat /\ t >= u + 2 /\ i \in Nat
          /\ l \in Nat /\ q = 1 /\ u = 5 + l + q
      <4>1. d \in Segmentations /\ i \in Nat /\ d.dur # NoneNamed
        BY <1>3, <1>4, <2>1
      <4> HIDE DEF d, i
      <4>2. z = t + 1 + r /\ t \in Nat /\ r \in Nat /\ u \in Nat /\ t >= u + 2 /\ l \in Nat /\ q = 1
        BY <4>1, SegmentationForm, SegmentationTyped DEF d
      <4>3. u = 5 + l + q
        BY DEF UpidAt
      <4>4. QED BY <4>1, <4>2, <4>3
    <3>2. cell[k] = i + 5 + l
      BY <2>1
    <3> HIDE DEF cell, i, z, t, u, r, l, q
    <3>3. i + 5 + l \in i..(i + z - 1)
      BY <3>1
    <3>4. QED BY <3>2, <3>3 DEF i, z
  <2>2. CASE ~IsTimed(c.descs[k])
    BY <2>2
  <2>3. QED BY <2>1, <2>2
<1>8. \A k \in 1..n : cell[k] = IF IsTimed(c.descs[k]) THEN place(k) ELSE 0
  OBVIOUS
<1> HIDE DEF cell
<1>9. /\ \A k, j \in 1..n : cell[j] \in at[k]..(at[k] + len(k) - 1) => cell[j] = cell[k]
      /\ \A k \in 1..n : cell[k] = 0 \/ (cell[k] \in Places /\ cell[k] > w /\ cell[k] < hi)
  BY <1>1, <1>7, ChosenOnce
<1>10. /\ brk = IF HasBreakDuration(m) THEN BreakAt(m) + 1 ELSE 0
       /\ HasBreakDuration(m) =>
            /\ m \in Inserts /\ CommandCells(m) = InsertCells(m)
            /\ BreakAt(m) \in Nat /\ BreakAt(m) >= 4 /\ BreakAt(m) + 2 = Len(CommandCells(m))
            /\ BreakAt(m) + 1 < w /\ b[BreakAt(m) + 1] = m.dur[1]
  BY BreakFound DEF BreakCell, brk, m, b, w
<1>11. brk \in Nat /\ brk < w
  BY <1>2, <1>10
<1> HIDE DEF n, w, hi, b, m, brk, place
<1>12. \A k \in 1..n : \A x \in at[k]..(at[k] + len(k) - 1) :
          /\ x \in 1..Len(b) /\ x > w /\ x < hi /\ x # brk /\ x # 0
  <2> SUFFICES ASSUME NEW k \in 1..n, NEW x \in at[k]..(at[k] + len(k) - 1)
               PROVE  x \in 1..Len(b) /\ x > w /\ x < hi /\ x # brk /\ x # 0
    OBVIOUS
  <2> DEFINE i == at[k]
             z == len(k)
             r == at[k + 1]
  <2>1. /\ i \in Nat /\ i >= w + 1 /\ z \in Nat /\ r = i + z /\ r <= hi
        /\ x \in i..(i + z - 1) /\ r \in Nat
    <3>1. k + 1 \in 1..(n + 1) /\ k \in 1..(n + 1)
      BY <1>2
    <3>2. r = i + z /\ r <= hi /\ r \in Nat /\ i >= w + 1
      BY <1>1, <3>1, FoundPlaces DEF n, hi, w
    <3>3. i \in Nat /\ z \in Nat
      BY <1>3, DescriptorForm
    <3>4. QED BY <3>2, <3>3
  <2> HIDE DEF i, z, r
  <2>2. QED BY <1>2, <1>11, <2>1
<1>13. \A k \in 1..n : \A x \in at[k]..(at[k] + len(k) - 1) :
          x \in segs <=> IsTimed(c.descs[k]) /\ x = place(k)
  <2> SUFFICES ASSUME NEW k \in 1..n, NEW x \in at[k]..(at[k] + len(k) - 1)
               PROVE  x \in segs <=> IsTimed(c.descs[k]) /\ x = place(k)
    OBVIOUS
  <2>1. x # 0
    BY <1>12
  <2>2. ASSUME x \in segs PROVE x = cell[k]
    <3>1. PICK j \in 1..n : x = cell[j]
      BY <1>6, <2>2
    <3>2. QED BY <1>9, <3>1
  <2>3. ASSUME x = cell[k] PROVE x \in segs
    BY <1>6, <2>3
  <2>4. QED BY <1>8, <2>1, <2>2, <2>3
<1>14. \A x \in segs : x = 0 \/ (x > w /\ x < hi)
  BY <1>6, <1>9
<1>15. body \in Cells /\ Len(body) = Len(b) /\ DOMAIN body = 1..Len(b)
  <2> DEFINE g(x) == IF x = brk THEN f[b[x]] % T33
                     ELSE IF x \in segs THEN f[b[x]] % T40 ELSE b[x]
  <2>1. \A x \in 1..Len(b) : g(x) \in Nat
    <3>1. \A t \in Nat : t % T33 \in Nat /\ t % T40 \in Nat
      BY WidthAssumption
    <3>2. \A x \in 1..Len(b) : f[b[x]] \in Nat
      BY <1>2 DEF IsMap
    <3>3. QED BY <1>2, <3>1, <3>2
  <2>2. body = [x \in 1..Len(b) |-> g(x)]
    BY <1>2
  <2> HIDE DEF body, g
  <2>3. QED BY <1>2, <2>1, <2>2 DEF Cells
<1>16. \A x \in 1..Len(b) : body[x] = IF x = brk THEN f[b[x]] % T33
                                      ELSE IF x \in segs THEN f[b[x]] % T40 ELSE b[x]
  BY <1>2
<1> HIDE DEF body
<1>17. ds = [k \in 1..n |-> IF IsTimed(c.descs[k])
                              THEN Lasting(c.descs[k], f[c.descs[k].dur[1]] % T40)
                              ELSE c.descs[k]]
  BY <1>2 DEF AllTimed
<1> HIDE DEF ds
<1>18. ASSUME NEW k \in 1..n
       PROVE  /\ ds[k] \in Descriptors /\ Has(body, at[k], DescriptorCells(ds[k]))
              /\ Len(DescriptorCells(ds[k])) = len(k)
  <2> DEFINE i == at[k]
             d == c.descs[k]
             z == len(k)
             p == place(k)
  <2>1. \A x \in i..(i + z - 1) : ~(IsTimed(d) /\ x = p) => body[x] = b[x]
    BY <1>12, <1>13, <1>16
  <2>2. CASE IsTimed(d)
    <3> DEFINE v == f[d.dur[1]] % T40
    <3>1. d \in Segmentations /\ SegmentationLies(b, i, d) /\ i \in Places /\ d.dur # NoneNamed
      BY <1>3, <1>4, <2>2
    <3>2. p = i + 5 + Len(Components(d))
      BY DEF place
    <3>3. p \in i..(i + z - 1)
      <4>1. p # 0
        <5> DEFINE l == Len(Components(d))
        <5>1. l \in Nat /\ i \in Nat
          BY <1>3, <3>1, SegmentationTyped
        <5>2. p = i + 5 + l
          BY <3>2
        <5> HIDE DEF l, i, p
        <5>3. QED BY <5>1, <5>2
      <4>2. cell[k] = p
        BY <1>8, <2>2
      <4>3. cell[k] = 0 \/ cell[k] \in i..(i + z - 1)
        BY <1>7 DEF Chosen, n
      <4>4. QED BY <4>1, <4>2, <4>3
    <3>4. b[p] = d.dur[1]
      <4>1. p \in DOMAIN b /\ At(b, p) = d.dur[1]
        <5> HIDE DEF d, i, p
        <5>1. QED BY <1>2, <3>1, <3>2, SegmentationCells
      <4>2. QED BY <4>1 DEF At
    <3>5. body[p] = v
      BY <1>12, <1>13, <1>16, <2>2, <3>3, <3>4
    <3>6. \A x \in i..(i + Len(DescriptorCells(d)) - 1) : x # p => body[x] = b[x]
      BY <2>1
    <3>7. ds[k] = Lasting(d, v)
      BY <1>17, <2>2
    <3>8. v \in Nat
      <4>1. d.dur[1] \in Nat
        BY <1>2, <1>12, <3>3, <3>4
      <4>2. f[d.dur[1]] \in Nat
        BY <4>1 DEF IsMap
      <4>3. \A t \in Nat : t % T40 \in Nat
        BY WidthAssumption
      <4>4. QED BY <4>2, <4>3
    <3>9. b \in Cells /\ body \in Cells /\ Len(body) = Len(b)
      BY <1>2, <1>15
    <3> HIDE DEF i, d, v, p
    <3>10. /\ body[i + 5 + Len(Components(d))] = v
           /\ \A x \in i..(i + Len(DescriptorCells(d)) - 1) :
                 x # i + 5 + Len(Components(d)) => body[x] = b[x]
      BY <3>2, <3>5, <3>6
    <3>11. Lasting(d, v) \in Segmentations
            /\ Len(DescriptorCells(Lasting(d, v))) = Len(DescriptorCells(d))
            /\ Has(body, i, DescriptorCells(Lasting(d, v)))
      BY <3>1, <3>8, <3>9, <3>10, DurationWritten
    <3>12. Lasting(d, v) \in Descriptors
      BY <3>11 DEF Descriptors
    <3>13. QED BY <3>7, <3>11, <3>12 DEF i, d
  <2>3. CASE ~IsTimed(d)
    <3>1. ds[k] = d
      BY <1>17, <2>3
    <3>2. \A x \in i..(i + z - 1) : body[x] = b[x]
      BY <2>1, <2>3
    <3>3. Has(body, i, DescriptorCells(d))
      BY <1>1, <1>15, <3>2, DescriptorKept DEF n, b
    <3>4. QED BY <1>3, <3>1, <3>3
  <2>4. QED BY <2>2, <2>3
<1>19. ds \in Seq(Descriptors) /\ Len(ds) = n
  BY <1>2, <1>17, <1>18, SMTT(30)
<1>20. \A x \in 1..Len(b) : x <= w /\ x # brk => body[x] = b[x]
  <2>1. \A x \in 1..Len(b) : x <= w => ~(x > w) /\ x # 0
    BY <1>2
  <2>2. QED BY <1>14, <1>16, <2>1
<1> DEFINE l == Len(CommandCells(m))
<1>21. CommandCells(m) \in Cells /\ l \in Nat /\ w = l + 1 /\ Has(b, 1, CommandCells(m))
  BY <1>2, CommandTyped DEF WordAt, CueLies, w, m
<1>22. /\ cmd \in Commands /\ TypeOf(cmd) = TypeOf(m) /\ Len(CommandCells(cmd)) = l
       /\ Has(body, 1, CommandCells(cmd))
  <2>1. CASE HasBreakDuration(m)
    <3> DEFINE v == f[m.dur[1]] % T33
               j == BreakAt(m) + 1
    <3>1. /\ m \in Inserts /\ m.dur # NoneNamed /\ CommandCells(m) = InsertCells(m) /\ brk = j
          /\ b[j] = m.dur[1] /\ j \in Nat /\ j >= 1 /\ j < w
      BY <1>10, <2>1 DEF HasBreakDuration
    <3> HIDE DEF j, l
    <3>2. j \in 1..Len(b)
      BY <1>2, <3>1
    <3>3. v \in Nat
      <4>1. m.dur[1] \in Nat
        BY <1>2, <3>1, <3>2
      <4>2. f[m.dur[1]] \in Nat
        BY <4>1 DEF IsMap
      <4>3. \A t \in Nat : t % T33 \in Nat
        BY WidthAssumption
      <4>4. QED BY <4>2, <4>3
    <3>4. body[j] = v
      BY <1>16, <3>1, <3>2
    <3>5. \A x \in 1..l : x # j => body[x] = b[x]
      <4>1. \A x \in 1..l : x \in 1..Len(b) /\ x <= w
        BY <1>2, <1>21
      <4>2. QED BY <1>20, <3>1, <4>1
    <3>6. cmd = Breaking(m, v)
      BY <2>1 DEF BreakMapped
    <3> HIDE DEF v, cmd
    <3>7. /\ Has(b, 1, InsertCells(m)) /\ body[BreakAt(m) + 1] = v
          /\ \A x \in 1..Len(InsertCells(m)) : x # BreakAt(m) + 1 => body[x] = b[x]
      BY <1>21, <3>1, <3>4, <3>5 DEF j, l
    <3>8. /\ Breaking(m, v) \in Inserts
          /\ Len(InsertCells(Breaking(m, v))) = Len(InsertCells(m))
          /\ Has(body, 1, InsertCells(Breaking(m, v)))
      <4>1. /\ b \in Cells /\ body \in Cells /\ Len(body) = Len(b)
            /\ m \in Inserts /\ m.dur # NoneNamed
        BY <1>2, <1>15, <3>1
      <4>2. QED BY <3>3, <3>7, <4>1, BreakWritten
    <3>9. cmd.type = "insert" /\ m.type = "insert"
      BY <3>1, <3>6, <3>8, InsertTyped
    <3>10. CommandCells(cmd) = InsertCells(cmd) /\ TypeOf(cmd) = TypeOf(m)
      BY <3>9 DEF CommandCells, TypeOf
    <3>11. cmd \in Commands
      BY <3>6, <3>8 DEF Commands
    <3>12. QED BY <3>1, <3>6, <3>8, <3>10, <3>11 DEF l
  <2>2. CASE ~HasBreakDuration(m)
    <3>1. cmd = m
      BY <2>2 DEF BreakMapped
    <3>2. brk = 0
      BY <1>10, <2>2
    <3>3. \A x \in 1..(1 + l - 1) : body[x] = b[x]
      <4> HIDE DEF l
      <4>1. \A x \in 1..(1 + l - 1) : x \in 1..Len(b) /\ x <= w /\ x # 0
        BY <1>2, <1>21
      <4>2. QED BY <1>20, <3>2, <4>1
    <3>4. 1 \in Places
      BY DEF Places
    <3> HIDE DEF cmd
    <3>5. Has(body, 1, CommandCells(m))
      BY <1>2, <1>15, <1>21, <3>3, <3>4, HasKept
    <3>6. QED BY <1>2, <3>1, <3>5
  <2>3. QED BY <2>1, <2>2
<1> HIDE DEF l, cmd
<1>23. SameLengths(c, cmd, ds)
  BY <1>18, <1>19, <1>22 DEF SameLengths, n, m, l
<1>24. body[w] = b[w]
  <2>1. w \in 1..Len(b) /\ w <= w /\ w # brk
    BY <1>2, <1>11
  <2>2. QED BY <1>20, <2>1
<1>25. \A x \in hi..Len(body) : body[x] = b[x]
  <2>1. \A x \in hi..Len(body) : x \in 1..Len(b) /\ ~(x < hi) /\ x # brk /\ x # 0
    BY <1>2, <1>11, <1>15
  <2>2. QED BY <1>14, <1>16, <2>1
<1>26. e \in Cues /\ Resealed(s, body) = Encode(e)
  <2>1. \A k \in 1..Len(ds) : Has(body, at[k], DescriptorCells(ds[k]))
    BY <1>18, <1>19
  <2>2. e = Remade(c, cmd, ds)
    BY DEF ds, cmd, m
  <2>3. Len(body) = Len(BodyOf(c))
    BY <1>15 DEF b
  <2>4. body[WordAt(c)] = BodyOf(c)[WordAt(c)]
          /\ \A x \in LoopEnd(c)..Len(body) : body[x] = BodyOf(c)[x]
    BY <1>24, <1>25 DEF b, w, hi
  <2> HIDE DEF s
  <2>5. /\ Remade(c, cmd, ds) \in Cues
        /\ Resealed(Encode(c), body) = Encode(Remade(c, cmd, ds))
    BY <1>1, <1>15, <1>19, <1>22, <1>23, <2>1, <2>3, <2>4, CellsReplaced
  <2>6. QED BY <2>2, <2>5, Zenon DEF s
<1>27. MappedSection(s, brk, f) = IF brk = 0 /\ segs \subseteq {0} THEN NoSection ELSE Resealed(s, body)
  <2>1. LocateLoop(s) = L /\ L # NoLoop /\ Starts(b, L) = starts
    BY <1>1, LoopRead DEF b, n
  <2> HIDE DEF L, starts, s
  <2>2. DurationCells(s) = segs
    BY <1>2, <2>1 DEF DurationCells, segs
  <2>3. MappedBody(s, brk, f) = body
    BY <1>2, <2>2, Zenon DEF MappedBody, body, brk
  <2>4. MappedSection(s, brk, f) = MappedIf(s, brk, MappedBody(s, brk, f))
    BY MappedForm
  <2>5. ~(brk > Len(s.body) + 1)
    BY <1>2, <1>11
  <2>6. QED BY <2>2, <2>3, <2>4, <2>5, Zenon DEF MappedIf
<1>28. brk = 0 /\ segs \subseteq {0} => e = c
  <2> SUFFICES ASSUME brk = 0, segs \subseteq {0} PROVE e = c
    OBVIOUS
  <2>1. \A k \in 1..n : ~IsTimed(c.descs[k])
    <3> SUFFICES ASSUME NEW k \in 1..n, IsTimed(c.descs[k]) PROVE FALSE
      OBVIOUS
    <3>1. cell[k] \in segs
      BY <1>6
    <3>2. cell[k] = 0
      BY <3>1
    <3> DEFINE i == at[k]
               y == Len(Components(c.descs[k]))
    <3>3. i \in Nat /\ y \in Nat /\ cell[k] = i + 5 + y
      BY <1>3, <1>4, <1>8, SegmentationTyped DEF place
    <3> HIDE DEF i, y
    <3>4. QED BY <3>2, <3>3
  <2>2. ds = [k \in 1..n |-> c.descs[k]]
    BY <1>17, <2>1
  <2>3. c.descs = [k \in 1..n |-> c.descs[k]]
    <3>1. c.descs \in Seq(Descriptors)
      BY CueTyped
    <3>2. QED BY <1>2, <3>1
  <2>4. cmd = m
    <3>1. ~HasBreakDuration(m)
      <4>1. HasBreakDuration(m) => brk = BreakAt(m) + 1 /\ BreakAt(m) \in Nat
        BY <1>10
      <4>2. QED BY <4>1
    <3>2. QED BY <3>1 DEF cmd, BreakMapped
  <2>5. e = [enc |-> c.enc, cmd |-> cmd, descs |-> ds, pad |-> c.pad]
    BY DEF Remade, ds, cmd, m
  <2>6. QED BY <2>2, <2>3, <2>4, <2>5, CueTyped DEF m
<1>29. MappedSection(s, brk, f) \in {Encode(e), NoSection}
         /\ (MappedSection(s, brk, f) = NoSection => e = c)
  <2> HIDE DEF s
  <2>1. CASE brk = 0 /\ segs \subseteq {0}
    BY <1>27, <1>28, <2>1
  <2>2. CASE ~(brk = 0 /\ segs \subseteq {0})
    <3>1. MappedSection(s, brk, f) = Encode(e)
      BY <1>26, <1>27, <2>2, Zenon
    <3>2. Encode(e) # NoSection
      <4>1. Encode(e).table = 252 /\ NoSection.table = 0
        BY <1>26, EncodeForm DEF NoSection
      <4>2. QED BY <4>1
    <3>3. QED BY <3>1, <3>2
  <2>3. QED BY <2>1, <2>2
<1>30. QED BY <1>26, <1>29, Zenon DEF s, brk, m
=============================================================================
